---------------------------- MODULE Spec2Model ----------------------------
(***************************************************************************)
(* A model of the AUSTA AI service (rodaquino-OMNI/QualityControl):        *)
(*   - the Auth middleware                  (utils/middleware.py)          *)
(*   - the Audit Decision Pipeline          (models/decision_pipeline.py)  *)
(*   - the Model Manager                    (services/model_manager.py)    *)
(*   - analysis, chat and context handling  (app/routers, services)        *)
(*   - the Rate Limit middleware            (utils/middleware.py)          *)
(*   - the Context Manager's chat history   (services/context_manager.py)  *)
(*   - the reasoning model's context history (models/gpt4_medical.py)      *)
(*   - one WebSocket chat connection        (app/routers/chat.py)          *)
(*   - ModelInput and ModelPrediction       (models/base.py)               *)
(*   - scoped logging contexts              (utils/logging_config.py)      *)
(*   - GET /health/detailed                 (app/routers/health.py)        *)
(*   - application startup                  (app/main.py)                  *)
(*   - the pipeline's risk assessment       (models/decision_pipeline.py)  *)
(* and of its neighbours:                                                  *)
(*   - the Model Training Pipeline  (ml-service/training)                  *)
(*   - the prediction log           (ml-service/main.py)                   *)
(*   - the health check tool        (tests/health/health_check_tests.py)   *)
(* Each subsystem has its own specification; the variables of the other    *)
(* subsystems stay at their initial values under it.                       *)
(***************************************************************************)
EXTENDS Integers, Sequences, FiniteSets, TLC

VARIABLES
    \* ---- Auth middleware ----
    request,        \* the request last dispatched: [path, api_key, auth_header]
    response,       \* the status it was answered with by the middleware (0: none)
    passed,         \* whether call_next(request) was invoked for it
    user,           \* request.state.user, the decoded token payload ("" if unset)
    \* ---- Audit Decision Pipeline ----
    stages,         \* self.stages: stage name -> [result, error], kept by the instance
    enable_parallel,\* self.enable_parallel
    call,           \* call id -> the state of that predict() call
    combined,       \* the value _combine_decisions returned (<<>>: not applied)
    \* ---- Model Manager ----
    models,         \* self.models: the registered model names
    is_loaded,      \* model name -> the is_loaded flag of the registered instance
    lock,           \* self._lock: <<>> when free, <<t>> when task t holds it
    task,           \* task id -> the manager operation the task is running
    down,           \* shutdown() has completed
    \* ---- Analysis and chat endpoints ----
    context_history,\* GPT4MedicalModel instance -> case ids in its context_history
    stored,         \* case ids with a "context:case:<id>" entry in the Context Manager
    background,     \* case ids whose store_analysis_context task is still queued
    analysed,       \* case ids for which /analysis/audit has answered 200
    reply,          \* the answer to the last analysis or chat request
    \* ---- Context Manager chat history ----
    redis_client,   \* self.redis_client: "unset" before initialize(), "client", "None"
    history,        \* the list under "chat:history:<id>" of the case followed
    pushed,         \* how many messages were stored under the key since it was created
    ttl,            \* days until the store expires the key (-1: no expiry set)
    idle_days,      \* days since a store_chat_message call last returned
    store_pc,       \* task id -> where its store_chat_message call stands
    \* ---- Conversational Medical Reasoning Model, context history ----
    case_messages,  \* case id -> the list context_history[case_id] (<<>>: no entry)
    turns,          \* how many user+assistant pairs were appended so far
    \* ---- WebSocket chat connection ----
    ws_pc,          \* where the handler of the connection stands
    arrivals,       \* the frames the client has sent, in arrival order
    read,           \* how many of them receive_text() has returned
    sent,           \* the frames the server has sent: <<type, frame answered>>
    \* ---- Rate Limit middleware ----
    now,            \* the clock, in half minutes
    request_counts, \* self.request_counts: <<client, minute window>> -> count (0: no key)
    forwarded,      \* client -> requests passed to call_next in the previous and
                    \* in the current half minute
    seen,           \* how many requests the middleware has dispatched
    rl_reply,       \* what the last request was answered with
    \* ---- ModelInput and ModelPrediction (models/base.py) ----
    uuids,          \* how many times uuid.uuid4() was called
    utc,            \* datetime.utcnow()
    inputs,         \* the ModelInput objects built: [request_id, given]
    predictions,    \* the ModelPrediction objects built
    \* ---- Model Training Pipeline (ml-service) ----
    model_store,    \* the files under MODEL_STORE_PATH
    model_registry, \* the versions _update_model_registry was called with
    deployment_queue,   \* the Redis list model_deployment_queue
    training_results,   \* what each train_model call returned, oldest first
    \* ---- ML Inference Service prediction log (ml-service/main.py) ----
    ml_predictions,     \* the Redis list ml_predictions, head first
    logged,             \* how many times log_prediction ran
    \* ---- LogContext (utils/logging_config.py) ----
    record_factory,     \* logging.getLogRecordFactory()
    scope_pc,           \* where each LogContext is: new, built, entered, exited
    original_record_factory,\* self.original_record_factory of each LogContext
    \* ---- GET /health/detailed (app/routers/health.py) ----
    health_cache,       \* health_cache['detailed_health'], <<>> when absent
    health_clock,       \* time.time()
    health_reply,       \* what /health/detailed answered last
    \* ---- Health check tool (tests/health/health_check_tests.py) ----
    hc_results,         \* the results dict of the health check tool, in insertion order
    hc_analysis,        \* what analyze_results returned, <<>> before the call
    \* ---- Application startup (app/main.py) ----
    managers,           \* the ModelManager objects constructed so far
    app_state_model_manager, \* app.state.model_manager
    global_model_manager, \* services.model_manager._model_manager
    lifespan_pc,        \* where lifespan is: starting, serving, stopped
    obtained,           \* what the last request handler got from its manager
    \* ---- Risk assessment of the Audit Decision Pipeline ----
    assessed            \* the risk assessment and required actions _combine_decisions returned last

authVars == <<request, response, passed, user>>
pipeVars == <<stages, enable_parallel, call, combined>>
mgrVars  == <<models, is_loaded, lock, task, down>>
chatVars == <<context_history, stored, background, analysed, reply>>

rateVars == <<now, request_counts, forwarded, seen, rl_reply>>
svcVars == <<redis_client, history, pushed, ttl, idle_days, store_pc,
             case_messages, turns, ws_pc, arrivals, read, sent, rateVars>>
idVars == <<uuids, utc, inputs, predictions>>
trainVars == <<model_store, model_registry, deployment_queue, training_results>>
logVars == <<ml_predictions, logged>>
ctxVars == <<record_factory, scope_pc, original_record_factory>>
healthVars == <<health_cache, health_clock, health_reply>>
toolVars == <<hc_results, hc_analysis>>
appVars == <<managers, app_state_model_manager, global_model_manager, lifespan_pc, obtained>>
riskVars == <<assessed>>
extVars == <<idVars, trainVars, logVars, ctxVars, healthVars, toolVars, appVars, riskVars>>
notIdVars == <<authVars, pipeVars, mgrVars, chatVars, svcVars, trainVars, logVars, ctxVars, healthVars, toolVars, appVars, riskVars>>
notTrainVars == <<authVars, pipeVars, mgrVars, chatVars, svcVars, idVars, logVars, ctxVars, healthVars, toolVars, appVars, riskVars>>
notLogVars == <<authVars, pipeVars, mgrVars, chatVars, svcVars, idVars, trainVars, ctxVars, healthVars, toolVars, appVars, riskVars>>
notCtxVars == <<authVars, pipeVars, mgrVars, chatVars, svcVars, idVars, trainVars, logVars, healthVars, toolVars, appVars, riskVars>>
notHealthVars == <<authVars, pipeVars, mgrVars, chatVars, svcVars, idVars, trainVars, logVars, ctxVars, toolVars, appVars, riskVars>>
notToolVars == <<authVars, pipeVars, mgrVars, chatVars, svcVars, idVars, trainVars, logVars, ctxVars, healthVars, appVars, riskVars>>
notAppVars == <<authVars, pipeVars, mgrVars, chatVars, svcVars, idVars, trainVars, logVars, ctxVars, healthVars, toolVars, riskVars>>
notRiskVars == <<authVars, pipeVars, mgrVars, chatVars, svcVars, idVars, trainVars, logVars, ctxVars, healthVars, toolVars, appVars>>
vars == <<authVars, pipeVars, mgrVars, chatVars, svcVars, extVars>>

\* Python's None.
None == "None"

(***************************************************************************)
(*                  IEEE-754 BINARY64 ARITHMETIC (Python float)            *)
(* A double is [m, e] standing for m * 2^e, with m = 0 or                  *)
(* 2^52 <= m < 2^53.  m is kept as two limbs <<hi, lo>> = hi * 2^28 + lo   *)
(* so that every intermediate value fits the model checker's integers.     *)
(* Results are rounded to nearest, ties to even, as the hardware does.     *)
(***************************************************************************)
Limb == 2^28

BNorm(hi, lo) == <<hi + (lo \div Limb), lo % Limb>>
BAdd(x, y) == BNorm(x[1] + y[1], x[2] + y[2])
BSub(x, y) == IF x[2] >= y[2] THEN <<x[1] - y[1], x[2] - y[2]>>
                              ELSE <<x[1] - y[1] - 1, x[2] + Limb - y[2]>>
BGe(x, y) == x[1] > y[1] \/ (x[1] = y[1] /\ x[2] >= y[2])
BDbl(x) == BAdd(x, x)
BHalf(x) == <<x[1] \div 2, (x[2] + (x[1] % 2) * Limb) \div 2>>
BOdd(x) == x[2] % 2 = 1
BZero == <<0, 0>>
BOne == <<0, 1>>
P52 == <<2^24, 0>>
P53 == <<2^25, 0>>
P54 == <<2^26, 0>>

FZero == [m |-> BZero, e |-> 0]

\* The recursions below carry their state in one record, so that each step's
\* values are computed before the next step starts.

\* s.x * 2^s.e with s.x >= 2^54 halved down to s.x < 2^54; st records a lost 1 bit.
RECURSIVE Squeeze(_)
Squeeze(s) ==
    IF BGe(s.x, P54)
        THEN Squeeze([x |-> BHalf(s.x), e |-> s.e + 1, st |-> s.st \/ BOdd(s.x)])
        ELSE s

\* s.m * 2^s.e with 0 < s.m < 2^52 doubled up to 2^52 <= s.m (exact).
RECURSIVE LiftUp(_)
LiftUp(s) == IF BGe(s.m, P52) THEN s ELSE LiftUp([m |-> BDbl(s.m), e |-> s.e - 1])

\* The double nearest to (x + f) * 2^e, where 0 <= f < 1 and f > 0 iff st.
\* When st holds, x has at least 54 bits.
FRound(x, e, st) ==
    LET s == Squeeze([x |-> x, e |-> e, st |-> st]) IN
    IF s.x = BZero THEN FZero
    ELSE IF BGe(s.x, P53) THEN
        LET m  == BHalf(s.x)
            up == BOdd(s.x) /\ (s.st \/ BOdd(m))
            m2 == IF up THEN BAdd(m, BOne) ELSE m
        IN  IF m2 = P53 THEN [m |-> P52, e |-> s.e + 2] ELSE [m |-> m2, e |-> s.e + 1]
    ELSE LiftUp([m |-> s.x, e |-> s.e])

\* The double of a small natural number (exact).
FromNat(n) == FRound(<<0, n>>, 0, FALSE)

\* floor(s.x / 2^s.d) with the sticky bit of what was shifted out.
RECURSIVE ShiftRight(_)
ShiftRight(s) ==
    IF s.d = 0 THEN s
    ELSE ShiftRight([x |-> BHalf(s.x), d |-> s.d - 1, st |-> s.st \/ BOdd(s.x)])

\* a + b for doubles a, b >= 0.
FAdd(a, b) ==
    IF a.m = BZero THEN b
    ELSE IF b.m = BZero THEN a
    ELSE LET hi == IF a.e >= b.e THEN a ELSE b
             lo == IF a.e >= b.e THEN b ELSE a
             d  == hi.e - lo.e
         IN  IF d > 55 THEN hi
             ELSE LET A == BDbl(BDbl(BDbl(hi.m)))
                      B == ShiftRight([x |-> BDbl(BDbl(BDbl(lo.m))), d |-> d, st |-> FALSE])
                  IN  FRound(BAdd(A, B.x), hi.e - 3, B.st)

\* s.n further quotient bits of s.r / s.d (s.r < s.d), appended to s.q.
RECURSIVE DivBits(_)
DivBits(s) ==
    IF s.n = 0 THEN s
    ELSE LET r2 == BDbl(s.r) IN
         IF BGe(r2, s.d)
            THEN DivBits([r |-> BSub(r2, s.d), d |-> s.d, n |-> s.n - 1,
                          q |-> BAdd(BDbl(s.q), BOne)])
            ELSE DivBits([r |-> r2, d |-> s.d, n |-> s.n - 1, q |-> BDbl(s.q)])

\* a / b for doubles a >= 0, b > 0.
FDiv(a, b) ==
    IF a.m = BZero THEN FZero
    ELSE LET ge == BGe(a.m, b.m)
             k  == IF ge THEN 54 ELSE 55
             Q  == DivBits([r |-> IF ge THEN BSub(a.m, b.m) ELSE a.m, d |-> b.m,
                            n |-> k, q |-> IF ge THEN BOne ELSE BZero])
         IN  FRound(Q.q, a.e - b.e - k, Q.r # BZero)

\* a >= b and a > b for doubles a, b >= 0.
FGe(a, b) ==
    IF b.m = BZero THEN TRUE
    ELSE IF a.m = BZero THEN FALSE
    ELSE a.e > b.e \/ (a.e = b.e /\ BGe(a.m, b.m))
FGt(a, b) == FGe(a, b) /\ a # b

\* The double a decimal literal num/den denotes (the nearest one).
Lit(num, den) == FDiv(FromNat(num), FromNat(den))

(***************************************************************************)
(*                            AUTH MIDDLEWARE                              *)
(***************************************************************************)

\* str.startswith on paths, which are sequences of characters.
StartsWith(p, q) == Len(q) <= Len(p) /\ SubSeq(p, 1, Len(q)) = q

PathRoot          == <<"/">>
PathHealth        == <<"/","h","e","a","l","t","h">>
PathHealthReady   == <<"/","h","e","a","l","t","h","/","r","e","a","d","i","n","e","s","s">>
PathDocs          == <<"/","d","o","c","s">>
PathOpenapi       == <<"/","o","p","e","n","a","p","i",".","j","s","o","n">>
PathAnalysisAudit == <<"/","a","n","a","l","y","s","i","s","/","a","u","d","i","t">>
PathChatMessage   == <<"/","c","h","a","t","/","m","e","s","s","a","g","e">>
PathModelsLoad    == <<"/","m","o","d","e","l","s","/","b","e","r","t","/","l","o","a","d">>

\* AuthMiddleware.__init__: the default exclude_paths, as main.py installs it.
exclude_paths == <<PathRoot, PathHealth, PathDocs, PathOpenapi>>

\* The paths requests are sent to.
Paths == {PathRoot, PathHealth, PathHealthReady, PathDocs, PathOpenapi,
          PathAnalysisAudit, PathChatMessage, PathModelsLoad}

\* A header is absent, or present with a value.
Absent == [present |-> FALSE, value |-> <<>>]
Header(v) == [present |-> TRUE, value |-> v]

\* An API key of n characters.
KeyOfLen(n) == [i \in 1..n |-> "k"]

\* The length the placeholder API-key policy accepts.
ApiKeyLen == 32

\* The X-API-Key headers sent: none, empty, one too short, valid, one too long.
ApiKeys == {Absent} \cup
           {Header(KeyOfLen(n)) : n \in {0, ApiKeyLen - 1, ApiKeyLen, ApiKeyLen + 1}}

\* The Authorization headers sent, as the words str.split() yields.
AuthHeaders == {Absent, Header(<<>>),
                Header(<<"Bearer", "good-token">>),
                Header(<<"bearer", "good-token">>),
                Header(<<"Bearer", "forged-token">>),
                Header(<<"Bearer", "expired-token">>),
                Header(<<"Basic", "good-token">>),
                Header(<<"Bearer">>),
                Header(<<"Bearer", "good-token", "extra">>)}

Requests == [path : Paths, api_key : ApiKeys, auth_header : AuthHeaders]

\* Python truthiness of an optional string header: present and non-empty.
Truthy(h) == h.present /\ Len(h.value) > 0

\* AuthMiddleware._validate_api_key
validate_api_key(api_key) == Len(api_key) = ApiKeyLen

\* str.lower() on the schemes that occur.
Lower(s) == IF s = "Bearer" THEN "bearer" ELSE s

\* jwt.decode(token, secret, algorithms=["HS256"]): the payload of a token signed
\* with the shared secret and not expired, else InvalidTokenError.
JwtValid(token) == token = "good-token"

\* The path test at the head of dispatch.
IsExcluded(path) == \E i \in 1..Len(exclude_paths) : StartsWith(path, exclude_paths[i])

\* AuthMiddleware.dispatch: the status the middleware answers with itself
\* (0 when it hands the request to call_next), and the payload it attaches.
AuthOutcome(req) ==
    IF IsExcluded(req.path) THEN [status |-> 0, user |-> ""]
    ELSE IF Truthy(req.api_key) THEN
        IF validate_api_key(req.api_key.value)
            THEN [status |-> 0, user |-> ""]
            ELSE [status |-> 401, user |-> ""]
    ELSE IF Truthy(req.auth_header) THEN
        LET words == req.auth_header.value IN
        IF Len(words) # 2 THEN [status |-> 401, user |-> ""]           \* ValueError
        ELSE IF Lower(words[1]) # "bearer" THEN [status |-> 401, user |-> ""]
        ELSE IF ~JwtValid(words[2]) THEN [status |-> 401, user |-> ""] \* InvalidTokenError
        ELSE [status |-> 0, user |-> words[2]]
    ELSE [status |-> 401, user |-> ""]

dispatch(req) ==
    LET out == AuthOutcome(req) IN
    /\ request' = req
    /\ response' = out.status
    /\ passed' = (out.status = 0)
    /\ user' = out.user
    /\ UNCHANGED <<pipeVars, mgrVars, chatVars, svcVars, extVars>>

AuthInit ==
    /\ request = [path |-> PathRoot, api_key |-> Absent, auth_header |-> Absent]
    /\ response = 0
    /\ passed = FALSE
    /\ user = ""

AuthNext == \E req \in Requests : dispatch(req)

(***************************************************************************)
(*                         AUDIT DECISION PIPELINE                         *)
(* Optional values are <<>> (None) or <<v>>.  Probabilities, scores and    *)
(* confidences are whole percents; stage weights are tenths.               *)
(***************************************************************************)

\* AuditDecisionPipeline.__init__: the stages, in list order.
StageOrder == <<"medical_validation", "expert_review", "fraud_detection", "pattern_analysis">>
StageNames == {StageOrder[i] : i \in 1..Len(StageOrder)}

\* The default stage weights 0.3 / 0.3 / 0.2 / 0.2, in tenths.
StageWeight(name) ==
    CASE name = "medical_validation" -> 3
      [] name = "expert_review"      -> 3
      [] name = "fraud_detection"    -> 2
      [] name = "pattern_analysis"   -> 2

\* The float a weight in tenths is, and the default decision_threshold 0.75.
WeightFloat(name) == Lit(StageWeight(name), 10)
decision_threshold == Lit(75, 100)

\* DecisionStage.__init__: no result, no error.
NewStage == [result |-> <<>>, error |-> <<>>]

\* Python truthiness of stage.result (a ModelPrediction or None) and of
\* stage.error (a string or None; the empty string is falsy).
ResultTruthy(st) == st.result # <<>>
ErrorTruthy(st) == st.error # <<>> /\ st.error[1] # ""

\* "if stage.result and not stage.error"
Usable(st) == ResultTruthy(st) /\ ~ErrorTruthy(st)

\* _extract_stage_decision: "approved", "denied", "requires_review" or None.
extract_stage_decision(name, st) ==
    LET p == st.result[1].prediction IN
    CASE name = "medical_validation" ->
            IF p.classification.appropriate_procedure > 70 THEN "approved"
            ELSE IF p.classification.unnecessary_procedure > 60 THEN "denied"
            ELSE "requires_review"
      [] name = "expert_review" ->
            IF p.decision \in {"approved", "denied", "requires_review"}
                THEN p.decision ELSE None
      [] name = "fraud_detection" ->
            IF p.risk_level = "high" THEN "denied"
            ELSE IF p.risk_level = "minimal" THEN "approved"
            ELSE "requires_review"
      [] name = "pattern_analysis" ->
            IF \E i \in 1..Len(p.detected_patterns) :
                  /\ p.detected_patterns[i].type = "protocol_deviation"
                  /\ p.detected_patterns[i].confidence > 80
                THEN "denied" ELSE "requires_review"

\* The loop of _combine_decisions over the stages from index i on: each usable
\* stage's weight is added to the bucket of its decision.
RECURSIVE Tally(_, _, _)
Tally(stgs, i, decisions) ==
    IF i > Len(StageOrder) THEN decisions
    ELSE LET name == StageOrder[i]
             d    == extract_stage_decision(name, stgs[name])
         IN  IF Usable(stgs[name]) /\ d # None
                THEN Tally(stgs, i + 1,
                           [decisions EXCEPT ![d] = FAdd(@, WeightFloat(name))])
                ELSE Tally(stgs, i + 1, decisions)

\* The final status of _combine_decisions.
FinalStatus(stgs) ==
    LET decisions == Tally(stgs, 1, [approved |-> FZero, denied |-> FZero,
                                     requires_review |-> FZero])
        total_weight == FAdd(FAdd(decisions.approved, decisions.denied),
                             decisions.requires_review)
    IN  IF FGt(total_weight, FZero) THEN
            IF FGe(FDiv(decisions.approved, total_weight), decision_threshold)
                THEN "approved"
            ELSE IF FGe(FDiv(decisions.denied, total_weight), decision_threshold)
                THEN "denied"
            ELSE "requires_review"
        ELSE "requires_review"

\* _combine_decisions
combine_decisions(stgs) == [status |-> FinalStatus(stgs)]

\* sum(confidences): stage confidence * weight over the usable stages from i on.
RECURSIVE ConfidenceSum(_, _)
ConfidenceSum(stgs, i) ==
    IF i > Len(StageOrder) THEN 0
    ELSE LET name == StageOrder[i] IN
         (IF Usable(stgs[name])
             THEN stgs[name].result[1].confidence * StageWeight(name) ELSE 0)
         + ConfidenceSum(stgs, i + 1)

\* sum(stage.weight for stage in stages if stage.result and not stage.error)
RECURSIVE WeightSum(_, _)
WeightSum(stgs, i) ==
    IF i > Len(StageOrder) THEN 0
    ELSE LET name == StageOrder[i] IN
         (IF Usable(stgs[name]) THEN StageWeight(name) ELSE 0) + WeightSum(stgs, i + 1)

\* _calculate_overall_confidence: the quotient, kept as numerator and
\* denominator (percent * tenths over tenths); 0.0 is 0/1.
calculate_overall_confidence(stgs) ==
    IF \E n \in StageNames : Usable(stgs[n])
        THEN [num |-> ConfidenceSum(stgs, 1), den |-> WeightSum(stgs, 1)]
        ELSE [num |-> 0, den |-> 1]

\* One entry of _format_stage_results; a stage with neither gets no entry.
FormatStage(st) ==
    IF ResultTruthy(st)
        THEN [status |-> "completed", confidence |-> st.result[1].confidence, error |-> ""]
    ELSE IF ErrorTruthy(st)
        THEN [status |-> "failed", confidence |-> 0, error |-> st.error[1]]
    ELSE [status |-> "absent", confidence |-> 0, error |-> ""]

format_stage_results(stgs) == [n \in StageNames |-> FormatStage(stgs[n])]

\* ---- what the stage models return ----

MedicalPrediction(appropriate, unnecessary) ==
    [classification |-> [appropriate_procedure |-> appropriate,
                         unnecessary_procedure |-> unnecessary]]
ExpertPrediction(decision) == [decision |-> decision]
FraudPrediction(risk_level) == [risk_level |-> risk_level]
PatternPrediction(patterns) == [detected_patterns |-> patterns]

\* A ModelPrediction: the fields the pipeline reads.
ModelPrediction(prediction, confidence) ==
    [prediction |-> prediction, confidence |-> confidence]

\* The predictions each stage model is given to return when the combination
\* is examined on its own: every decision a stage can contribute, with the
\* comparisons' boundary values (0.7, 0.6, 0.8) among them.
ModelOutputs(name) ==
    CASE name = "medical_validation" ->
            {ModelPrediction(MedicalPrediction(80, 10), 90),
             ModelPrediction(MedicalPrediction(50, 70), 90),
             ModelPrediction(MedicalPrediction(70, 60), 90)}
      [] name = "expert_review" ->
            {ModelPrediction(ExpertPrediction(d), 80) :
                d \in {"approved", "denied", "requires_review", "inconclusive"}}
      [] name = "fraud_detection" ->
            {ModelPrediction(FraudPrediction(l), 70) : l \in {"high", "minimal", "medium"}}
      [] name = "pattern_analysis" ->
            {ModelPrediction(PatternPrediction(<<>>), 60),
             ModelPrediction(PatternPrediction(
                <<[type |-> "protocol_deviation", confidence |-> 90]>>), 60),
             ModelPrediction(PatternPrediction(
                <<[type |-> "protocol_deviation", confidence |-> 80]>>), 60)}

\* The prediction each stage model is given to return during pipeline runs.
RunOutputs(name) ==
    CASE name = "medical_validation" ->
            {ModelPrediction(MedicalPrediction(80, 10), 90)}
      [] name = "expert_review" ->
            {ModelPrediction(ExpertPrediction("approved"), 80)}
      [] name = "fraud_detection" ->
            {ModelPrediction(FraudPrediction("medium"), 70)}
      [] name = "pattern_analysis" ->
            {ModelPrediction(PatternPrediction(<<>>), 60)}

\* str(e) of the exceptions a stage model raises; an exception constructed
\* without a message has the empty text.
ErrorTexts == {"", "upstream timeout"}

\* What one execution of a stage model produces: a prediction or an error.
Returned(r) == [result |-> <<r>>, error |-> <<>>]
Raised(text) == [result |-> <<>>, error |-> <<text>>]
Executions(name) == {Returned(r) : r \in RunOutputs(name)} \cup
                    {Raised(t) : t \in ErrorTexts}

\* ---- predict() ----

\* _execute_stage: the stage after its model produced out.
execute_stage(st, out) ==
    IF out.error = <<>> THEN [st EXCEPT !.result = out.result]
                        ELSE [st EXCEPT !.error = out.error]

\* The ModelPrediction predict() returns after the stages ran.
PipelinePrediction(stgs) ==
    [kind            |-> "prediction",
     final_decision  |-> combine_decisions(stgs).status,
     confidence      |-> calculate_overall_confidence(stgs),
     stage_results   |-> format_stage_results(stgs)]

\* _create_error_response
ErrorResponse ==
    [kind            |-> "error",
     final_decision  |-> "",
     confidence      |-> [num |-> 0, den |-> 1],
     stage_results   |-> [n \in StageNames |-> FormatStage(NewStage)]]

\* The predict() calls: each is idle, running its stages, or has returned.
\* outcome records what the call's own stage executions produced.
AllCalls == {"A", "B"}
NoOutcomes == [n \in StageNames |-> NewStage]
IdleCall == [pc |-> "idle", outcome |-> NoOutcomes, ret |-> <<>>]

Executed(c, n) == call[c].outcome[n] # NewStage

\* Faulty variant: a gather that returns as soon as one stage task has finished.
MutGatherFirstDone(c) == \E n \in StageNames : Executed(c, n)
\* asyncio.gather(*tasks) returns once every stage task has finished.
GatherDone(c) == \A n \in StageNames : Executed(c, n)

\* The stage tasks that may finish next: any unfinished one in parallel mode,
\* the first unfinished one in list order in sequential mode.
FirstUnfinished(c) ==
    LET i == CHOOSE i \in 1..Len(StageOrder) :
                /\ ~Executed(c, StageOrder[i])
                /\ \A j \in 1..(i - 1) : Executed(c, StageOrder[j])
    IN  StageOrder[i]
Runnable(c, n) ==
    /\ call[c].pc = "running"
    /\ ~Executed(c, n)
    /\ (enable_parallel \/ n = FirstUnfinished(c))

\* predict() up to its first suspension: validate_input, then the stage tasks
\* are created (or the first stage is awaited).
PredictStart(c) ==
    /\ call[c].pc \in {"idle", "returned"}
    /\ \E valid \in BOOLEAN :
          call' = [call EXCEPT ![c] =
                     IF valid THEN [pc |-> "running", outcome |-> NoOutcomes, ret |-> <<>>]
                              ELSE [pc |-> "returned", outcome |-> NoOutcomes,
                                    ret |-> <<ErrorResponse>>]]
    /\ UNCHANGED <<stages, enable_parallel, combined, authVars, mgrVars, chatVars, svcVars, extVars>>

\* One stage's model returns or raises, in parallel mode: the task ends.
StageTaskDone(c, n) ==
    /\ enable_parallel
    /\ Runnable(c, n)
    /\ \E out \in Executions(n) :
          /\ stages' = [stages EXCEPT ![n] = execute_stage(@, out)]
          /\ call' = [call EXCEPT ![c].outcome[n] = out]
    /\ UNCHANGED <<enable_parallel, combined, authVars, mgrVars, chatVars, svcVars, extVars>>

\* predict() resumes after gather: combination, confidence, formatting.
PredictFinish(c) ==
    /\ enable_parallel
    /\ call[c].pc = "running"
    /\ GatherDone(c)
    /\ call' = [call EXCEPT ![c].pc = "returned",
                            ![c].ret = <<PipelinePrediction(stages)>>]
    /\ UNCHANGED <<stages, enable_parallel, combined, authVars, mgrVars, chatVars, svcVars, extVars>>

\* Sequential mode: the awaited stage's model returns or raises; after the
\* last stage predict() goes on to combine without suspending.
SequentialStep(c, n) ==
    /\ ~enable_parallel
    /\ Runnable(c, n)
    /\ \E out \in Executions(n) :
          LET stgs == [stages EXCEPT ![n] = execute_stage(@, out)]
              last == n = StageOrder[Len(StageOrder)]
          IN  /\ stages' = stgs
              /\ call' = [call EXCEPT
                            ![c].outcome[n] = out,
                            ![c].pc = IF last THEN "returned" ELSE @,
                            ![c].ret = IF last THEN <<PipelinePrediction(stgs)>> ELSE @]
    /\ UNCHANGED <<enable_parallel, combined, authVars, mgrVars, chatVars, svcVars, extVars>>

PipeFresh ==
    /\ stages = [n \in StageNames |-> NewStage]
    /\ call = [c \in AllCalls |-> IdleCall]
    /\ combined = <<>>

PipeParked == enable_parallel = TRUE /\ PipeFresh

\* The calls made one at a time on the instance.
PipeNext ==
    \E c \in {"A"} :
        \/ PredictStart(c)
        \/ \E n \in StageNames : StageTaskDone(c, n)
        \/ PredictFinish(c)
        \/ \E n \in StageNames : SequentialStep(c, n)

\* Two audit requests on the one pipeline instance, in parallel mode:
\* predict() is called once for each, "B" while "A" is running, and the two
\* calls interleave where predict() awaits.  The exceptions the stage models
\* raise here carry a message.
ConcurrentNext ==
    \E c \in AllCalls :
        \/ /\ call[c].pc = "idle"
           /\ c = "B" => call["A"].pc = "running"
           /\ PredictStart(c)
        \/ \E n \in StageNames :
              StageTaskDone(c, n) /\ call'[c].outcome[n] # Raised("")
        \/ PredictFinish(c)

\* ---- _combine_decisions on its own ----

\* The states a stage can be in when the combination runs: it has been
\* executed at least once, so a result or an error is set, and both are when one
\* is left from an earlier run.
StageStates(name) ==
    {[result |-> r, error |-> e] :
        r \in {<<>>} \cup {<<x>> : x \in ModelOutputs(name)},
        e \in {<<>>} \cup {<<t>> : t \in ErrorTexts}} \ {NewStage}

CombineInit ==
    /\ \E m \in StageStates("medical_validation"), x \in StageStates("expert_review"),
          f \in StageStates("fraud_detection"), p \in StageStates("pattern_analysis") :
          stages = [medical_validation |-> m, expert_review |-> x,
                    fraud_detection |-> f, pattern_analysis |-> p]
    /\ enable_parallel = TRUE
    /\ call = [c \in AllCalls |-> IdleCall]
    /\ combined = <<>>

ApplyCombine ==
    /\ combined = <<>>
    /\ combined' = <<combine_decisions(stages)>>
    /\ UNCHANGED <<stages, enable_parallel, call, authVars, mgrVars, chatVars, svcVars, extVars>>

CombineNext == ApplyCombine

(***************************************************************************)
(*                 Model Manager (services/model_manager.py)               *)
(***************************************************************************)

\* The instances initialize() registers, in the order of the dict.
ModelOrder ==
    <<"bert_medical", "gpt4_medical", "xgboost_fraud", "lstm_patterns", "decision_pipeline">>
ModelNames == {ModelOrder[i] : i \in 1..Len(ModelOrder)}
essential_models == {"bert_medical", "gpt4_medical", "decision_pipeline"}

\* The names the callers ask for: registered ones and one that never is.
RequestNames == {"bert_medical", "decision_pipeline", "unknown_model"}

\* The tasks of the event loop that call the manager.
Tasks == {"t1", "t2"}

IdleTask ==
    [op |-> "none", name |-> "", pc |-> "idle", i |-> 0, ret |-> "",
     invoked |-> FALSE, was_loaded |-> FALSE, contract |-> "none"]

\* Faulty variant of get_model: the is_loaded flag is not consulted.
MutGetRegistered(name) == IF name \in models THEN <<name>> ELSE <<>>
\* get_model
get_model(name) ==
    IF name \in models /\ is_loaded[name] THEN <<name>> ELSE <<>>

\* Faulty variant: the load contract's exception reaches the caller.
MutLoadPropagates(outcome) == IF outcome = "ok" THEN "True" ELSE "raised"
\* What load_model returns once model.load_model() has returned or raised:
\* the try/except around the load contract.
LoadResult(outcome) == IF outcome = "ok" THEN "True" ELSE "False"

\* The task is inside a call of the manager that has not returned.
Running(t) == task[t].pc \in {"loading", "r_unload", "r_load", "r_loading"}

\* A task can make a new call once its previous one has returned.
Startable(t) == task[t].pc \in {"idle", "done"} /\ ~down

MgrFresh ==
    /\ models = {}
    /\ is_loaded = [n \in ModelNames |-> FALSE]
    /\ lock = <<>>
    /\ task = [t \in Tasks |-> IdleTask]
    /\ down = FALSE

\* initialize(): the five instances are registered and the essential ones
\* loaded, each load succeeding or failing.
Initialize(loads) ==
    /\ models = {} /\ ~down /\ lock = <<>>
    /\ \A t \in Tasks : ~Running(t)
    /\ models' = ModelNames
    /\ is_loaded' = [n \in ModelNames |-> n \in essential_models /\ loads[n]]
    /\ UNCHANGED <<lock, task, down, authVars, pipeVars, chatVars, svcVars, extVars>>

\* load_model(name) up to its await of the load contract: the lock is taken,
\* an unknown name returns False, a loaded model returns True, and otherwise
\* model.load_model() is awaited with the lock held.
LoadModel(t, name) ==
    /\ Startable(t) /\ lock = <<>>
    /\ LET call0 == [IdleTask EXCEPT !.op = "load", !.name = name] IN
       IF name \notin models THEN
            /\ task' = [task EXCEPT ![t] = [call0 EXCEPT !.pc = "done", !.ret = "False"]]
            /\ lock' = lock
       ELSE IF is_loaded[name] THEN
            /\ task' = [task EXCEPT ![t] = [call0 EXCEPT !.pc = "done", !.ret = "True",
                                                         !.was_loaded = TRUE]]
            /\ lock' = lock
       ELSE
            /\ task' = [task EXCEPT ![t] = [call0 EXCEPT !.pc = "loading",
                                                         !.invoked = TRUE]]
            /\ lock' = <<t>>
    /\ UNCHANGED <<models, is_loaded, down, authVars, pipeVars, chatVars, svcVars, extVars>>

\* load_model(name) from the return of the load contract: the model has set
\* is_loaded and True is returned, or it raised and False is returned; the
\* lock is released.
LoadModelDone(t, outcome) ==
    /\ task[t].pc = "loading"
    /\ is_loaded' = IF outcome = "ok" THEN [is_loaded EXCEPT ![task[t].name] = TRUE]
                    ELSE is_loaded
    /\ task' = [task EXCEPT ![t] = [@ EXCEPT !.pc = "done", !.contract = outcome,
                                             !.ret = LoadResult(outcome)]]
    /\ lock' = <<>>
    /\ UNCHANGED <<models, down, authVars, pipeVars, chatVars, svcVars, extVars>>

\* unload_model(name): under the lock, False for an unknown name, else the
\* model is marked unloaded and True returned.
UnloadModel(t, name) ==
    /\ Startable(t) /\ lock = <<>>
    /\ LET call0 == [IdleTask EXCEPT !.op = "unload", !.name = name, !.pc = "done"] IN
       IF name \notin models THEN
            /\ task' = [task EXCEPT ![t] = [call0 EXCEPT !.ret = "False"]]
            /\ is_loaded' = is_loaded
       ELSE
            /\ task' = [task EXCEPT ![t] = [call0 EXCEPT !.ret = "True",
                                                         !.was_loaded = is_loaded[name]]]
            /\ is_loaded' = [is_loaded EXCEPT ![name] = FALSE]
    /\ UNCHANGED <<models, lock, down, authVars, pipeVars, chatVars, svcVars, extVars>>

\* reload_all_models() is called: with nothing registered it returns at once,
\* else its loop starts at the first model.
ReloadAllModels(t) ==
    /\ Startable(t)
    /\ LET call0 == [IdleTask EXCEPT !.op = "reload_all"] IN
       task' = [task EXCEPT ![t] =
                   IF models = {} THEN [call0 EXCEPT !.pc = "done", !.ret = "results"]
                   ELSE [call0 EXCEPT !.pc = "r_unload", !.i = 1,
                                      !.name = ModelOrder[1]]]
    /\ UNCHANGED <<models, is_loaded, lock, down, authVars, pipeVars, chatVars, svcVars, extVars>>

\* The loop's "await self.unload_model(model_name)".
ReloadUnload(t) ==
    /\ task[t].pc = "r_unload" /\ lock = <<>>
    /\ is_loaded' = [is_loaded EXCEPT ![task[t].name] = FALSE]
    /\ task' = [task EXCEPT ![t] = [@ EXCEPT !.pc = "r_load"]]
    /\ UNCHANGED <<models, lock, down, authVars, pipeVars, chatVars, svcVars, extVars>>

\* Where the loop of reload_all_models goes once the load of model i returned.
ReloadAdvance(r) ==
    IF r.i = Len(ModelOrder) THEN [r EXCEPT !.pc = "done", !.ret = "results"]
    ELSE [r EXCEPT !.pc = "r_unload", !.i = r.i + 1, !.name = ModelOrder[r.i + 1]]

\* The loop's "await self.load_model(model_name)" up to the load contract.
ReloadLoad(t) ==
    /\ task[t].pc = "r_load" /\ lock = <<>>
    /\ IF is_loaded[task[t].name] THEN
            /\ task' = [task EXCEPT ![t] = ReloadAdvance(@)]
            /\ lock' = lock
       ELSE
            /\ task' = [task EXCEPT ![t] = [@ EXCEPT !.pc = "r_loading"]]
            /\ lock' = <<t>>
    /\ UNCHANGED <<models, is_loaded, down, authVars, pipeVars, chatVars, svcVars, extVars>>

\* The same load from the return of the load contract.
ReloadLoadDone(t, outcome) ==
    /\ task[t].pc = "r_loading"
    /\ is_loaded' = IF outcome = "ok" THEN [is_loaded EXCEPT ![task[t].name] = TRUE]
                    ELSE is_loaded
    /\ task' = [task EXCEPT ![t] = ReloadAdvance([@ EXCEPT !.contract = outcome])]
    /\ lock' = <<>>
    /\ UNCHANGED <<models, down, authVars, pipeVars, chatVars, svcVars, extVars>>

\* shutdown(), run by the lifespan once the handlers have returned: every
\* registered model is unloaded.
Shutdown ==
    /\ ~down /\ lock = <<>>
    /\ \A t \in Tasks : ~Running(t)
    /\ is_loaded' = [n \in ModelNames |-> IF n \in models THEN FALSE ELSE is_loaded[n]]
    /\ down' = TRUE
    /\ UNCHANGED <<models, lock, task, authVars, pipeVars, chatVars, svcVars, extVars>>

\* POST /models/{name}/load around a returned ModelManager.load_model call:
\* the value the call returned is not looked at, so the answer is 200 with
\* "loaded successfully" unless the call raised, which the handler turns
\* into 500.
load_model_endpoint(ret) == IF ret = "raised" THEN 500 ELSE 200

MgrNext ==
    \/ \E loads \in [essential_models -> BOOLEAN] : Initialize(loads)
    \/ \E t \in Tasks, name \in RequestNames : LoadModel(t, name)
    \/ \E t \in Tasks, outcome \in {"ok", "raised"} : LoadModelDone(t, outcome)
    \/ \E t \in Tasks, name \in RequestNames : UnloadModel(t, name)
    \/ \E t \in Tasks : ReloadAllModels(t)
    \/ \E t \in Tasks : ReloadUnload(t)
    \/ \E t \in Tasks : ReloadLoad(t)
    \/ \E t \in Tasks, outcome \in {"ok", "raised"} : ReloadLoadDone(t, outcome)
    \/ Shutdown

(***************************************************************************)
(*   Analysis and chat endpoints (app/routers/analysis.py, chat.py,        *)
(*   services/chat_service.py, services/context_manager.py)                *)
(***************************************************************************)

CaseIds == {"case-1", "case-2"}

\* The two GPT4MedicalModel instances initialize() creates: the one registered
\* as "gpt4_medical" and the one AuditDecisionPipeline.__init__ builds for its
\* expert_review stage.
Gpt4Instances == {"registry", "pipeline"}

\* The keys of the Context Manager's store.
ContextKey(c) == <<"context:case", c>>
HistoryKey(c) == <<"chat:history", c>>

\* get_case_context
get_case_context(c) == IF ContextKey(c) \in stored THEN <<c>> ELSE <<>>

\* GPT4MedicalModel.chat on instance g: the error result when the case has no
\* entry in the instance's context_history, else the completion's answer, or
\* the error result of a completion that raised.
chat(g, c, api_ok) ==
    IF c \notin context_history[g] THEN "no_context"
    ELSE IF api_ok THEN "answered"
    ELSE "api_error"

Reply(endpoint, c, status, outcome, eligible) ==
    [endpoint |-> endpoint, case_id |-> c, status |-> status, outcome |-> outcome,
     eligible |-> eligible]

\* The case was analysed with a 200 answer and its context is in the store.
Eligible(c) == c \in analysed /\ get_case_context(c) # <<>>

ChatFresh ==
    /\ context_history = [g \in Gpt4Instances |-> {}]
    /\ stored = {}
    /\ background = {}
    /\ analysed = {}
    /\ reply = Reply("none", "", 0, "", FALSE)

\* The stage executions of one audit: the expert review returns or raises,
\* the other stages return.
AuditExecutions(name) ==
    IF name = "expert_review"
        THEN {Returned(r) : r \in RunOutputs(name)} \cup {Raised("upstream timeout")}
        ELSE {Returned(r) : r \in RunOutputs(name)}

\* The executions of the four stages when the expert review's is x.
StageRuns(x) ==
    [n \in StageNames |->
        IF n = "expert_review" THEN x ELSE CHOOSE e \in AuditExecutions(n) : TRUE]

\* POST /analysis/audit: 400 on validation errors; 500 when the pipeline is not
\* served by the manager; else pipeline.predict() runs the four stages, the
\* pipeline's own GPT-4 instance records the case when its prediction returns,
\* the context store is queued as a background task and 200 is answered.
analyze_audit_case(c, valid, x) ==
    /\ ~down
    /\ IF ~valid THEN
            /\ reply' = Reply("audit", c, 400, "invalid", FALSE)
            /\ UNCHANGED <<stages, context_history, background, analysed>>
       ELSE IF get_model("decision_pipeline") = <<>> THEN
            /\ reply' = Reply("audit", c, 500, "unavailable", FALSE)
            /\ UNCHANGED <<stages, context_history, background, analysed>>
       ELSE
            /\ stages' = [n \in StageNames |-> execute_stage(stages[n], StageRuns(x)[n])]
            /\ context_history' =
                  IF x.result # <<>>
                      THEN [context_history EXCEPT !["pipeline"] = @ \cup {c}]
                      ELSE context_history
            /\ background' = background \cup {c}
            /\ analysed' = analysed \cup {c}
            /\ reply' = Reply("audit", c, 200, "analysed", FALSE)
    /\ UNCHANGED <<stored, enable_parallel, call, combined, authVars, mgrVars, svcVars, extVars>>

\* The background task: store_analysis_context.
store_analysis_context(c) ==
    /\ c \in background
    /\ background' = background \ {c}
    /\ stored' = stored \cup {ContextKey(c)}
    /\ UNCHANGED <<context_history, analysed, reply, authVars, pipeVars, mgrVars, svcVars, extVars>>

\* POST /analysis/quick/{model_name}: 404 when the model is not served, else
\* the model's prediction; a GPT-4 prediction records the case in the
\* registered instance.
quick_analysis(name, c, ok) ==
    /\ ~down
    /\ IF get_model(name) = <<>> THEN
            /\ reply' = Reply("quick", c, 404, "unavailable", FALSE)
            /\ context_history' = context_history
       ELSE IF ~ok THEN
            /\ reply' = Reply("quick", c, 500, "failed", FALSE)
            /\ context_history' = context_history
       ELSE
            /\ reply' = Reply("quick", c, 200, "prediction", FALSE)
            /\ context_history' =
                  IF name = "gpt4_medical"
                      THEN [context_history EXCEPT !["registry"] = @ \cup {c}]
                      ELSE context_history
    /\ UNCHANGED <<stored, background, analysed, authVars, pipeVars, mgrVars, svcVars, extVars>>

\* POST /chat/message
send_chat_message(c, include_context, api_ok) ==
    /\ ~down
    /\ LET result == chat("registry", c, api_ok) IN
       IF get_model("gpt4_medical") = <<>> THEN
            /\ reply' = Reply("chat_message", c, 503, "unavailable", Eligible(c))
            /\ stored' = stored
       ELSE IF include_context /\ get_case_context(c) = <<>> THEN
            /\ reply' = Reply("chat_message", c, 404, "no_stored_context", Eligible(c))
            /\ stored' = stored
       ELSE IF result # "answered" THEN
            /\ reply' = Reply("chat_message", c, 500, result, Eligible(c))
            /\ stored' = stored
       ELSE
            /\ reply' = Reply("chat_message", c, 200, result, Eligible(c))
            /\ stored' = stored \cup {HistoryKey(c)}
    /\ UNCHANGED <<context_history, background, analysed, authVars, pipeVars, mgrVars, svcVars, extVars>>

\* One "message" frame on the WebSocket endpoint, through
\* ChatService.process_message: an "error" frame when the model is not served
\* or when the chat result has no "answer", a "response" frame otherwise.
websocket_chat(c, api_ok) ==
    /\ ~down
    /\ LET result == chat("registry", c, api_ok) IN
       IF get_model("gpt4_medical") = <<>> THEN
            /\ reply' = Reply("websocket", c, 0, "unavailable", Eligible(c))
            /\ stored' = stored
       ELSE IF get_case_context(c) = <<>> THEN
            /\ reply' = Reply("websocket", c, 0, "no_stored_context", Eligible(c))
            /\ stored' = stored
       ELSE IF result # "answered" THEN
            /\ reply' = Reply("websocket", c, 0, result, Eligible(c))
            /\ stored' = stored
       ELSE
            /\ reply' = Reply("websocket", c, 0, result, Eligible(c))
            /\ stored' = stored \cup {HistoryKey(c)}
    /\ UNCHANGED <<context_history, background, analysed, authVars, pipeVars, mgrVars, svcVars, extVars>>

\* DELETE /chat/context/{case_id}
clear_chat_context(c) ==
    /\ ~down
    /\ context_history' =
          IF get_model("gpt4_medical") # <<>>
              THEN [context_history EXCEPT !["registry"] = @ \ {c}]
              ELSE context_history
    /\ stored' = stored \ {ContextKey(c), HistoryKey(c)}
    /\ reply' = Reply("clear", c, 200, "success", FALSE)
    /\ UNCHANGED <<background, analysed, authVars, pipeVars, mgrVars, svcVars, extVars>>

\* ModelManager.check_models_ready: every essential model is registered and
\* loaded.
check_models_ready ==
    \A n \in essential_models : n \in models /\ is_loaded[n]

\* The outcomes of the GET the backend probe sends within its 5-second
\* timeout: an answer 200, another answer, no answer in time.
Probes == {"200", "503", "timeout"}

\* _check_backend_readiness: True on an answer 200, False on any other answer
\* and on every exception.
check_backend_readiness(probe) == probe = "200"

\* GET /health/readiness: overall_ready is the conjunction of the two checks;
\* status_code is computed from it and not used again, and the handler returns
\* the response dict, which the framework sends with the route's default
\* status 200.
readiness_check(probe) ==
    /\ ~down
    /\ LET overall_ready == check_models_ready /\ check_backend_readiness(probe) IN
       reply' = Reply("readiness", "", 200,
                      IF overall_ready THEN "ready" ELSE "not_ready", FALSE)
    /\ UNCHANGED <<context_history, stored, background, analysed,
                   authVars, pipeVars, mgrVars, svcVars, extVars>>

ChatNext ==
    \/ \E loads \in [essential_models -> BOOLEAN] : Initialize(loads)
    \/ \E c \in CaseIds, valid \in BOOLEAN, x \in AuditExecutions("expert_review") :
          analyze_audit_case(c, valid, x)
    \/ \E c \in CaseIds : store_analysis_context(c)
    \/ \E name \in {"gpt4_medical", "bert_medical"}, c \in CaseIds, ok \in BOOLEAN :
          quick_analysis(name, c, ok)
    \/ \E c \in CaseIds, include_context \in BOOLEAN, api_ok \in BOOLEAN :
          send_chat_message(c, include_context, api_ok)
    \/ \E c \in CaseIds, api_ok \in BOOLEAN : websocket_chat(c, api_ok)
    \/ \E c \in CaseIds : clear_chat_context(c)
    \/ \E probe \in Probes : readiness_check(probe)
    \/ UnloadModel("t1", "gpt4_medical")

(***************************************************************************)
(*   Rate Limit middleware (utils/middleware.py, RateLimitMiddleware)      *)
(***************************************************************************)

\* The remote addresses of the clients.
Clients == {"10.0.0.1", "10.0.0.2"}

\* The ceiling the middleware is constructed with (requests_per_minute,
\* default 60).
requests_per_minute == 2

\* The clock runs from 0 to MaxTime half minutes, and the middleware
\* dispatches MaxRequests requests.
MaxTime == 6
MaxRequests == 6

\* int(current_time // 60), current_time being t half minutes.
minute_window(t) == t \div 2
Windows == 0..minute_window(MaxTime)

\* _cleanup_old_entries(current_window): the keys of windows before
\* current_window - 2 are deleted.
cleanup_old_entries(counts, current_window) ==
    [k \in Clients \X Windows |->
        IF k[2] < current_window - 2 THEN 0 ELSE counts[k]]

\* dispatch(request) for a request of client c: the counter of the client's
\* key for the current minute window is created at 0 if missing and
\* incremented; above the ceiling 429 with Retry-After: 60 is returned, else
\* old keys are swept and the request is passed to call_next.
RateLimitDispatch(c) ==
    /\ seen < MaxRequests
    /\ seen' = seen + 1
    /\ LET key == <<c, minute_window(now)>>
           counted == [request_counts EXCEPT ![key] = @ + 1]
       IN  IF counted[key] > requests_per_minute THEN
                /\ request_counts' = counted
                /\ rl_reply' = [client |-> c, status |-> 429, retry_after |-> "60",
                                passed |-> FALSE]
                /\ forwarded' = forwarded
           ELSE
                /\ request_counts' = cleanup_old_entries(counted, minute_window(now))
                /\ rl_reply' = [client |-> c, status |-> 200, retry_after |-> "",
                                passed |-> TRUE]
                /\ forwarded' = [forwarded EXCEPT ![c].cur = @ + 1]
    /\ UNCHANGED <<now, redis_client, history, pushed, ttl, idle_days, store_pc,
                   case_messages, turns, ws_pc, arrivals, read, sent,
                   authVars, pipeVars, mgrVars, chatVars, extVars>>

\* Half a minute passes.
RateTick ==
    /\ now < MaxTime
    /\ now' = now + 1
    /\ forwarded' = [c \in Clients |-> [prev |-> forwarded[c].cur, cur |-> 0]]
    /\ UNCHANGED <<request_counts, seen, rl_reply,
                   redis_client, history, pushed, ttl, idle_days, store_pc,
                   case_messages, turns, ws_pc, arrivals, read, sent,
                   authVars, pipeVars, mgrVars, chatVars, extVars>>

RateNext ==
    \/ \E c \in Clients : RateLimitDispatch(c)
    \/ RateTick

(***************************************************************************)
(*   Context Manager chat history (services/context_manager.py)            *)
(***************************************************************************)

\* ltrim(key, 0, 99) and [:100]: the number of entries a history keeps.
history_cap == 100

\* self.history_ttl, in days.
history_ttl == 30

\* How many messages are stored under one key, and the days one step of the
\* clock advances.
MaxStored == 105
TickDays == 15

Min(a, b) == IF a <= b THEN a ELSE b

SvcFresh ==
    /\ redis_client = "unset"
    /\ history = <<>>
    /\ pushed = 0
    /\ ttl = -1
    /\ idle_days = 0
    /\ store_pc = [t \in Tasks |-> "idle"]
    /\ case_messages = [c \in CaseIds |-> <<>>]
    /\ turns = 0
    /\ ws_pc = "connecting"
    /\ arrivals = <<>>
    /\ read = 0
    /\ sent = <<>>
    /\ now = 0
    /\ request_counts = [k \in Clients \X Windows |-> 0]
    /\ forwarded = [c \in Clients |-> [prev |-> 0, cur |-> 0]]
    /\ seen = 0
    /\ rl_reply = [client |-> "", status |-> 0, retry_after |-> "", passed |-> FALSE]

\* ContextManager.initialize(), run by the first get_context_manager(): the
\* Redis client when the ping succeeds, else None and the in-memory store.
ContextInitialize(connected) ==
    /\ redis_client = "unset"
    /\ redis_client' = IF connected THEN "client" ELSE "None"
    /\ UNCHANGED <<history, pushed, ttl, idle_days, store_pc,
                   authVars, pipeVars, mgrVars, chatVars,
                   case_messages, turns, ws_pc, arrivals, read, sent, rateVars, extVars>>

\* Faulty variant of the trim: the 100 oldest entries are kept.
MutTrimKeepsOldest(h) ==
    SubSeq(h, Len(h) - Min(Len(h), history_cap) + 1, Len(h))
\* ltrim(key, 0, 99), and the slice [:100] of the in-memory list.
Trim(h) == SubSeq(h, 1, Min(Len(h), history_cap))

\* store_chat_message up to its first await. With Redis: lpush of the
\* JSON-encoded message (a key that does not exist is created, without
\* expiry). In memory: insert at the front and slice, without any await.
store_chat_message(t) ==
    /\ redis_client # "unset" /\ store_pc[t] = "idle" /\ pushed < MaxStored
    /\ pushed' = pushed + 1
    /\ IF redis_client = "client" THEN
            /\ history' = <<<<"json", pushed + 1>>>> \o history
            /\ store_pc' = [store_pc EXCEPT ![t] = "expire"]
            /\ idle_days' = idle_days
       ELSE
            /\ history' = Trim(<<pushed + 1>> \o history)
            /\ store_pc' = store_pc
            /\ idle_days' = 0
    /\ UNCHANGED <<redis_client, ttl, authVars, pipeVars, mgrVars, chatVars,
                   case_messages, turns, ws_pc, arrivals, read, sent, rateVars, extVars>>

\* store_chat_message, Redis: expire(key, history_ttl), which does nothing for
\* a key that does not exist.
StoreExpire(t) ==
    /\ store_pc[t] = "expire"
    /\ ttl' = IF history # <<>> THEN history_ttl ELSE ttl
    /\ store_pc' = [store_pc EXCEPT ![t] = "ltrim"]
    /\ UNCHANGED <<redis_client, history, pushed, idle_days,
                   authVars, pipeVars, mgrVars, chatVars,
                   case_messages, turns, ws_pc, arrivals, read, sent, rateVars, extVars>>

\* store_chat_message, Redis: ltrim(key, 0, 99), and the call returns.
StoreTrim(t) ==
    /\ store_pc[t] = "ltrim"
    /\ history' = Trim(history)
    /\ store_pc' = [store_pc EXCEPT ![t] = "idle"]
    /\ idle_days' = 0
    /\ UNCHANGED <<redis_client, pushed, ttl, authVars, pipeVars, mgrVars, chatVars,
                   case_messages, turns, ws_pc, arrivals, read, sent, rateVars, extVars>>

\* TickDays days pass: Redis deletes a key whose expiry is reached; the
\* in-memory store keeps everything.
Tick ==
    /\ redis_client # "unset"
    /\ idle_days < history_ttl \/ ttl >= 0
    /\ idle_days' = Min(idle_days + TickDays, history_ttl)
    /\ IF ttl >= 0 /\ ttl - TickDays <= 0
          THEN history' = <<>> /\ pushed' = 0 /\ ttl' = -1
          ELSE /\ ttl' = IF ttl >= 0 THEN ttl - TickDays ELSE ttl
               /\ UNCHANGED <<history, pushed>>
    /\ UNCHANGED <<redis_client, store_pc, authVars, pipeVars, mgrVars, chatVars,
                   case_messages, turns, ws_pc, arrivals, read, sent, rateVars, extVars>>

\* cleanup_old_contexts(days): with Redis nothing is done; in memory only
\* entries that are dicts with a "timestamp" are candidates, which a chat
\* history, a list, is not.
cleanup_old_contexts ==
    /\ redis_client # "unset"
    /\ UNCHANGED vars

\* get_chat_history(case_id, limit), limit >= 1: lrange(key, 0, limit - 1)
\* with each entry JSON-decoded, or the slice [:limit] of the in-memory list.
get_chat_history(limit) ==
    IF redis_client = "client"
        THEN [i \in 1..Min(limit, Len(history)) |-> history[i][2]]
        ELSE SubSeq(history, 1, Min(limit, Len(history)))

StoreNext ==
    \/ \E connected \in BOOLEAN : ContextInitialize(connected)
    \/ \E t \in Tasks : store_chat_message(t)
    \/ \E t \in Tasks : StoreExpire(t)
    \/ \E t \in Tasks : StoreTrim(t)
    \/ Tick
    \/ cleanup_old_contexts

(***************************************************************************)
(*   Conversational Medical Reasoning Model: the per-case context history  *)
(*   (models/gpt4_medical.py)                                              *)
(***************************************************************************)

\* "Keep only last 10 messages".
context_cap == 10

\* How many user+assistant pairs are appended in one behaviour.
MaxTurns == 8

\* The user message and the assistant message of turn n.
TurnPair(n) == <<<<"user", n>>, <<"assistant", n>>>>

\* _update_context: the pair is appended and, when the list is longer than
\* 10, only its last 10 entries are kept.
update_context(h, n) ==
    LET ext == h \o TurnPair(n) IN
    IF Len(ext) > context_cap
        THEN SubSeq(ext, Len(ext) - context_cap + 1, Len(ext))
        ELSE ext

\* predict(input_data): when the completion returns, _update_context records
\* the turn; when it raises, the exception propagates and nothing is recorded.
Gpt4Predict(c, api_ok) ==
    /\ turns < MaxTurns
    /\ IF api_ok
          THEN /\ case_messages' = [case_messages EXCEPT ![c] = update_context(@, turns + 1)]
               /\ turns' = turns + 1
          ELSE UNCHANGED <<case_messages, turns>>
    /\ UNCHANGED <<redis_client, history, pushed, ttl, idle_days, store_pc,
                   authVars, pipeVars, mgrVars, chatVars,
                   ws_pc, arrivals, read, sent, rateVars, extVars>>

\* chat(case_id, question): the error result when the case has no entry;
\* else, when the completion returns, the question and the answer are
\* appended to the entry with extend(), and nothing else is done to it.
Gpt4Chat(c, api_ok) ==
    /\ turns < MaxTurns
    /\ IF case_messages[c] # <<>> /\ api_ok
          THEN /\ case_messages' = [case_messages EXCEPT ![c] = @ \o TurnPair(turns + 1)]
               /\ turns' = turns + 1
          ELSE UNCHANGED <<case_messages, turns>>
    /\ UNCHANGED <<redis_client, history, pushed, ttl, idle_days, store_pc,
                   authVars, pipeVars, mgrVars, chatVars,
                   ws_pc, arrivals, read, sent, rateVars, extVars>>

\* clear_context(case_id): the entry is removed.
Gpt4ClearContext(c) ==
    /\ case_messages' = [case_messages EXCEPT ![c] = <<>>]
    /\ UNCHANGED <<turns, redis_client, history, pushed, ttl, idle_days, store_pc,
                   authVars, pipeVars, mgrVars, chatVars,
                   ws_pc, arrivals, read, sent, rateVars, extVars>>

Gpt4Next ==
    \/ \E c \in CaseIds, api_ok \in BOOLEAN : Gpt4Predict(c, api_ok)
    \/ \E c \in CaseIds, api_ok \in BOOLEAN : Gpt4Chat(c, api_ok)
    \/ \E c \in CaseIds : Gpt4ClearContext(c)

(***************************************************************************)
(*   WebSocket chat connection (app/routers/chat.py, websocket_chat)       *)
(***************************************************************************)

\* What the client sends: a "message" frame, a "ping" frame, a JSON object of
\* another type, a text that is not JSON, and its disconnect.
FrameKinds == {"message", "ping", "other", "invalid", "disconnect"}

\* How many frames the client sends on one connection.
MaxFrames == 4

\* Faulty variant of the handler's except clauses: every exception ends the
\* handler without a frame.
MutExceptDropsSilently(exc) == [frames |-> <<>>, pc |-> "disconnected"]
\* The except clauses around the receive loop: WebSocketDisconnect is passed
\* over; any other exception sends one "error" frame and closes.
OuterExcept(exc) ==
    IF exc = "WebSocketDisconnect"
        THEN [frames |-> <<>>, pc |-> "disconnected"]
        ELSE [frames |-> <<<<"error", 0>>>>, pc |-> "closed"]

\* Faulty variant: a chat that raised is answered with no frame.
MutChatFrameSwallowsError(outcome, n) ==
    IF outcome = "raised" THEN <<>> ELSE <<<<"response", n>>>>
\* The try/except around process_message for frame n: a "response" frame with
\* the answer it returned (also its fixed answer for a case without stored
\* context), an "error" frame when it raised.
ChatFrame(outcome, n) ==
    IF outcome = "raised" THEN <<<<"error", n>>>> ELSE <<<<"response", n>>>>

\* accept() and the greeting.
WsAccept ==
    /\ ws_pc = "connecting"
    /\ sent' = <<<<"system", 0>>>>
    /\ ws_pc' = "receive"
    /\ UNCHANGED <<arrivals, read, redis_client, history, pushed, ttl, idle_days,
                   store_pc, case_messages, turns,
                   authVars, pipeVars, mgrVars, chatVars, rateVars, extVars>>

\* The client sends one more frame, or disconnects.
WsArrive(kind) ==
    /\ ws_pc \in {"receive", "process"}
    /\ Len(arrivals) < MaxFrames
    /\ \A i \in 1..Len(arrivals) : arrivals[i] # "disconnect"
    /\ arrivals' = Append(arrivals, kind)
    /\ UNCHANGED <<ws_pc, read, sent, redis_client, history, pushed, ttl, idle_days,
                   store_pc, case_messages, turns,
                   authVars, pipeVars, mgrVars, chatVars, rateVars, extVars>>

\* One turn of the loop up to process_message: receive_text() returns the
\* next frame or raises WebSocketDisconnect, json.loads raises on a text that
\* is not JSON, a "message" frame is acknowledged with "typing", a "ping"
\* with "pong", any other type is ignored.
WsReceive ==
    /\ ws_pc = "receive" /\ read < Len(arrivals)
    /\ read' = read + 1
    /\ LET kind == arrivals[read + 1]
           exit == OuterExcept(IF kind = "disconnect" THEN "WebSocketDisconnect"
                               ELSE "JSONDecodeError")
       IN  CASE kind \in {"disconnect", "invalid"} ->
                    sent' = sent \o exit.frames /\ ws_pc' = exit.pc
             [] kind = "message" ->
                    sent' = Append(sent, <<"typing", read + 1>>) /\ ws_pc' = "process"
             [] kind = "ping" ->
                    sent' = Append(sent, <<"pong", read + 1>>) /\ ws_pc' = "receive"
             [] OTHER -> sent' = sent /\ ws_pc' = "receive"
    /\ UNCHANGED <<arrivals, redis_client, history, pushed, ttl, idle_days,
                   store_pc, case_messages, turns,
                   authVars, pipeVars, mgrVars, chatVars, rateVars, extVars>>

\* The chat round trip of the "message" frame being handled and its frame.
WsProcess(outcome) ==
    /\ ws_pc = "process"
    /\ sent' = sent \o ChatFrame(outcome, read)
    /\ ws_pc' = "receive"
    /\ UNCHANGED <<arrivals, read, redis_client, history, pushed, ttl, idle_days,
                   store_pc, case_messages, turns,
                   authVars, pipeVars, mgrVars, chatVars, rateVars, extVars>>

WsNext ==
    \/ WsAccept
    \/ \E kind \in FrameKinds : WsArrive(kind)
    \/ WsReceive
    \/ \E outcome \in {"answered", "no_context", "raised"} : WsProcess(outcome)

(***************************************************************************)
(* ModelInput and ModelPrediction (models/base.py).  The defaults of the   *)
(* fields request_id, prediction_id and timestamp are expressions in the   *)
(* class bodies: Python evaluates them once, when the module is imported,  *)
(* and every object built without an explicit value receives that one      *)
(* value.  uuid.uuid4() is a counter here: each call returns a new value.  *)
(***************************************************************************)
MaxObjects == 3
MaxUtc == 2

\* the class bodies, evaluated at import: the first and second uuid4() of
\* the process and the clock at import
prediction_id_default == 1
request_id_default == 2
timestamp_default == 0

IdFresh ==
    /\ uuids = 2
    /\ utc = 0
    /\ inputs = <<>>
    /\ predictions = <<>>

\* the wall clock advances
UtcTick ==
    /\ utc < MaxUtc
    /\ utc' = utc + 1
    /\ UNCHANGED <<uuids, inputs, predictions, notIdVars>>

\* ModelInput(case_id=..., data=...) or ModelInput(..., request_id=<uuid>)
NewModelInput(given) ==
    /\ Len(inputs) < MaxObjects
    /\ IF given
       THEN /\ uuids' = uuids + 1
            /\ inputs' = Append(inputs, [request_id |-> uuids + 1, given |-> TRUE])
       ELSE /\ uuids' = uuids
            /\ inputs' = Append(inputs, [request_id |-> request_id_default,
                                         given |-> FALSE])
    /\ UNCHANGED <<utc, predictions, notIdVars>>

\* ModelPrediction(...), with or without prediction_id= and timestamp=
NewModelPrediction(given) ==
    /\ Len(predictions) < MaxObjects
    /\ IF given
       THEN /\ uuids' = uuids + 1
            /\ predictions' = Append(predictions,
                   [prediction_id |-> uuids + 1, timestamp |-> utc,
                    given |-> TRUE, built_at |-> utc])
       ELSE /\ uuids' = uuids
            /\ predictions' = Append(predictions,
                   [prediction_id |-> prediction_id_default,
                    timestamp |-> timestamp_default,
                    given |-> FALSE, built_at |-> utc])
    /\ UNCHANGED <<utc, inputs, notIdVars>>

\* the analysis_id and timestamp POST /analysis/audit answers with
AnalysisResponse(p) == [analysis_id |-> p.prediction_id, timestamp |-> p.timestamp]

IdNext ==
    \/ UtcTick
    \/ \E given \in BOOLEAN : NewModelInput(given)
    \/ \E given \in BOOLEAN : NewModelPrediction(given)

(***************************************************************************)
(* Model Training Pipeline (ml-service/training/model_training_pipeline.py)*)
(* Metrics are in hundredths.  One call of train_model is one action: its  *)
(* inputs say what the monitoring queries answer, how the training steps   *)
(* end, what validation measures and which step of the deployment raises.  *)
(***************************************************************************)
ModelTypes == {"authorization", "fraud_detection", "risk_assessment", "cost_prediction"}
MaxRuns == 2

\* self.model_configs: retraining_threshold and min_accuracy / min_performance
model_configs ==
    [authorization   |-> [retraining_threshold |-> 2,  minimum |-> 85],
     fraud_detection |-> [retraining_threshold |-> 3,  minimum |-> 90],
     risk_assessment |-> [retraining_threshold |-> 5,  minimum |-> 80],
     cost_prediction |-> [retraining_threshold |-> 10, minimum |-> 75]]

\* what monitoring and the registry answer: current and baseline performance
\* (<<>>: no baseline), data drift, days since the last training
Monitorings ==
    {[current |-> 89, baseline |-> <<>>,   drift |-> FALSE, days |-> 15],
     [current |-> 79, baseline |-> <<90>>, drift |-> FALSE, days |-> 15],
     [current |-> 89, baseline |-> <<90>>, drift |-> TRUE,  days |-> 15],
     [current |-> 89, baseline |-> <<90>>, drift |-> FALSE, days |-> 31],
     [current |-> 89, baseline |-> <<90>>, drift |-> FALSE, days |-> 15]}

should_retrain(model_type, mon) ==
    IF mon.baseline = <<>> THEN TRUE
    ELSE IF mon.baseline[1] - mon.current > model_configs[model_type].retraining_threshold
    THEN TRUE
    ELSE IF mon.drift THEN TRUE
    ELSE mon.days > 30

\* the validation metric _validation_passes reads (accuracy for the
\* classifiers, r2 for the regressors): one hundredth under the model type's
\* minimum, or exactly the minimum
Metrics(model_type) ==
    {model_configs[model_type].minimum - 1, model_configs[model_type].minimum}

MutValidationAlwaysPasses(validation_results, model_type) == TRUE

validation_passes(validation_results, model_type) ==
    validation_results >= model_configs[model_type].minimum

\* how the steps before validation end: data loaded and model trained, no
\* training data (ValueError), or a step raised
Trainings == {"ok", "empty", "raised"}

\* the step of _deploy_model that raises, if any: joblib.dump, writing the
\* metadata file, logging to MLflow, the Redis lpush of the notification
DeployFaults == {"none", "dump", "metadata", "mlflow", "notify"}

ModelFile(model_type, version, kind) ==
    [model_type |-> model_type, version |-> version, kind |-> kind]

\* _notify_deployment: lpush to model_deployment_queue
notify_deployment(queue, model_type, version) ==
    <<[model_type |-> model_type, model_version |-> version, action |-> "deploy"]>>
        \o queue

\* _deploy_model, up to the step that raises
deploy_model(model_type, version, fault) ==
    /\ model_store' = model_store \cup
          (IF fault = "dump" THEN {}
           ELSE IF fault = "metadata" THEN {ModelFile(model_type, version, "pkl")}
           ELSE {ModelFile(model_type, version, "pkl"),
                 ModelFile(model_type, version, "metadata")})
    /\ model_registry' =
          IF fault \in {"none", "notify"}
          THEN Append(model_registry, version) ELSE model_registry
    /\ deployment_queue' =
          IF fault = "none"
          THEN notify_deployment(deployment_queue, model_type, version)
          ELSE deployment_queue

TrainingResult(model_type, status, validated) ==
    [model_type |-> model_type, status |-> status, validated |-> validated]

\* train_model(model_type, force_retrain); validated holds the validation
\* metric of the run and is empty when the run did not reach validation
train_model(model_type, force_retrain, mon, training, metric, fault) ==
    /\ Len(training_results) < MaxRuns
    /\ LET version == Len(training_results) + 1 IN
       IF ~force_retrain /\ ~should_retrain(model_type, mon)
       THEN /\ training_results' =
                  Append(training_results, TrainingResult(model_type, "skipped", <<>>))
            /\ UNCHANGED <<model_store, model_registry, deployment_queue>>
       ELSE IF training # "ok"
       THEN /\ training_results' =
                  Append(training_results, TrainingResult(model_type, "error", <<>>))
            /\ UNCHANGED <<model_store, model_registry, deployment_queue>>
       ELSE IF validation_passes(metric, model_type)
       THEN /\ deploy_model(model_type, version, fault)
            /\ training_results' =
                  Append(training_results,
                         TrainingResult(model_type,
                                        IF fault = "none" THEN "success" ELSE "error",
                                        <<metric>>))
       ELSE /\ training_results' =
                  Append(training_results, TrainingResult(model_type, "failed", <<metric>>))
            /\ UNCHANGED <<model_store, model_registry, deployment_queue>>
    /\ UNCHANGED notTrainVars

TrainFresh ==
    /\ model_store = {}
    /\ model_registry = <<>>
    /\ deployment_queue = <<>>
    /\ training_results = <<>>

TrainNext ==
    \E model_type \in ModelTypes, force_retrain \in BOOLEAN, mon \in Monitorings :
    \E training \in Trainings, metric \in Metrics(model_type), fault \in DeployFaults :
        train_model(model_type, force_retrain, mon, training, metric, fault)

(***************************************************************************)
(* ML Inference Service prediction log (ml-service/main.py).  A log entry  *)
(* is stood for by the number of the log_prediction call that wrote it;    *)
(* the entries an earlier run of the service left in Redis have the        *)
(* numbers 0, -1, -2, ...                                                  *)
(***************************************************************************)
MaxLogged == 60

\* how many entries the list holds when the service starts: the list lives in
\* Redis and outlives the process
Backlogs == {0, 9999}

\* redis_client.ltrim(key, start, stop) with start = 0: both ends are
\* inclusive, the elements at indexes 0..stop stay
ltrim(list, stop) == SubSeq(list, 1, Min(Len(list), stop + 1))

\* log_prediction: lpush the entry, then ltrim('ml_predictions', 0, 10000)
log_prediction ==
    /\ logged < MaxLogged
    /\ logged' = logged + 1
    /\ ml_predictions' = ltrim(<<logged + 1>> \o ml_predictions, 10000)
    /\ UNCHANGED notLogVars

LogFresh ==
    /\ ml_predictions = <<>>
    /\ logged = 0

\* the service starts on a list earlier runs filled, newest first
LogRestored ==
    /\ \E n \in Backlogs : ml_predictions = [i \in 1..n |-> 1 - i]
    /\ logged = 0

LogNext == log_prediction

(***************************************************************************)
(* LogContext (utils/logging_config.py).  The record factory of the        *)
(* logging module is one process-wide value.  A factory is written as the  *)
(* sequence of the scopes whose wrappers it is made of, innermost first:   *)
(* <<>> is the factory in force before the first scope.                    *)
(***************************************************************************)
Scopes == {"s1", "s2", "s3"}

\* the attributes a record made by a factory carries: every wrapper in the
\* chain sets the attributes of its scope
RecordAttributes(factory) == {factory[i] : i \in 1..Len(factory)}

\* LogContext.__init__: remembers the factory in force at construction
LogContextInit(s) ==
    /\ scope_pc[s] = "new"
    /\ original_record_factory' =
           [original_record_factory EXCEPT ![s] = record_factory]
    /\ scope_pc' = [scope_pc EXCEPT ![s] = "built"]
    /\ UNCHANGED <<record_factory, notCtxVars>>

\* LogContext.__enter__: installs a wrapper around the remembered factory
LogContextEnter(s) ==
    /\ scope_pc[s] = "built"
    /\ record_factory' = Append(original_record_factory[s], s)
    /\ scope_pc' = [scope_pc EXCEPT ![s] = "entered"]
    /\ UNCHANGED <<original_record_factory, notCtxVars>>

\* LogContext.__exit__: puts the remembered factory back
LogContextExit(s) ==
    /\ scope_pc[s] = "entered"
    /\ record_factory' = original_record_factory[s]
    /\ scope_pc' = [scope_pc EXCEPT ![s] = "exited"]
    /\ UNCHANGED <<original_record_factory, notCtxVars>>

CtxFresh ==
    /\ record_factory = <<>>
    /\ scope_pc = [s \in Scopes |-> "new"]
    /\ original_record_factory = [s \in Scopes |-> <<>>]

CtxNext ==
    \E s \in Scopes : LogContextInit(s) \/ LogContextEnter(s) \/ LogContextExit(s)

(***************************************************************************)
(* GET /health/detailed (app/routers/health.py).  Time is in seconds.      *)
(***************************************************************************)
CACHE_TTL == 30
HealthTickSeconds == 15
MaxHealthClock == 45

\* the statuses the four sub-checks can report: the database check reports
\* healthy or unhealthy, the others also degraded
SubChecks ==
    [system : {"healthy", "degraded", "unhealthy"},
     models : {"healthy", "degraded", "unhealthy"},
     dependencies : {"healthy", "degraded", "unhealthy"},
     database : {"healthy", "unhealthy"}]

CheckNames == {"system", "models", "dependencies", "database"}

\* "Calculate overall status"
overall_status(all_checks) ==
    LET failed_checks == {name \in CheckNames : all_checks[name] # "healthy"}
        degraded_checks == {name \in CheckNames : all_checks[name] = "degraded"}
    IN  IF failed_checks = {} /\ degraded_checks = {} THEN "healthy"
        ELSE IF failed_checks # {} THEN "unhealthy"
        ELSE "degraded"

\* detailed_health_check: the cached answer while it is younger than
\* CACHE_TTL, else the sub-checks are run and the answer is cached
detailed_health_check(all_checks) ==
    IF health_cache # <<>> /\ health_clock - health_cache[1].timestamp < CACHE_TTL
    THEN /\ health_reply' = <<health_cache[1].data>>
         /\ UNCHANGED <<health_cache, health_clock, notHealthVars>>
    ELSE LET health_status ==
                 [checks |-> all_checks, status |-> overall_status(all_checks)]
         IN  /\ health_cache' = <<[data |-> health_status, timestamp |-> health_clock]>>
             /\ health_reply' = <<health_status>>
             /\ UNCHANGED <<health_clock, notHealthVars>>

HealthTick ==
    /\ health_clock < MaxHealthClock
    /\ health_clock' = health_clock + HealthTickSeconds
    /\ UNCHANGED <<health_cache, health_reply, notHealthVars>>

HealthFresh ==
    /\ health_cache = <<>>
    /\ health_clock = 0
    /\ health_reply = <<>>

HealthNext ==
    \/ \E all_checks \in SubChecks : detailed_health_check(all_checks)
    \/ HealthTick

(***************************************************************************)
(* Health check tool (tests/health/health_check_tests.py).  Response times *)
(* are in milliseconds.                                                    *)
(***************************************************************************)
MaxEndpoints == 2

\* HealthCheckTester.__init__: self.services, each with the first
\* MaxEndpoints of its health_endpoints
services ==
    [ai_service |->
        [health_endpoints |-> SubSeq(<<"/health/", "/health/liveness",
                                       "/health/readiness", "/health/detailed",
                                       "/health/system">>, 1, Min(5, MaxEndpoints)),
         expected_status_codes |-> {200}],
     backend_service |->
        [health_endpoints |-> SubSeq(<<"/health", "/health/live", "/health/ready",
                                       "/health/detailed", "/health/metrics">>,
                                     1, Min(5, MaxEndpoints)),
         expected_status_codes |-> {200}],
     frontend_service |->
        [health_endpoints |-> SubSeq(<<"/health">>, 1, Min(1, MaxEndpoints)),
         expected_status_codes |-> {200, 404}]]

ServiceNames == DOMAIN services

\* what session.get does: a response with a status code after so many
\* milliseconds, or an exception (status_code 0)
Outcomes ==
    {[status_code |-> 200, response_time_ms |-> 1500],
     [status_code |-> 200, response_time_ms |-> 2500],
     [status_code |-> 200, response_time_ms |-> 6000],
     [status_code |-> 404, response_time_ms |-> 1500],
     [status_code |-> 0,   response_time_ms |-> 1500]}

\* _check_endpoint: "Determine health status"
check_endpoint(service, endpoint, outcome) ==
    [endpoint |-> endpoint,
     status |->
        IF outcome.status_code = 0 THEN "unhealthy"
        ELSE IF outcome.status_code \in services[service].expected_status_codes
        THEN IF outcome.response_time_ms > 5000 THEN "unhealthy"
             ELSE IF outcome.response_time_ms > 2000 THEN "degraded"
             ELSE "healthy"
        ELSE "unhealthy",
     response_time_ms |-> outcome.response_time_ms,
     status_code |-> outcome.status_code]

\* how many results of a service have a status
CountStatus(service_results, status) ==
    Cardinality({i \in 1..Len(service_results) : service_results[i].status = status})

MutServiceStatusDegradedFirst(service_results) ==
    IF CountStatus(service_results, "degraded") > 0 THEN "degraded"
    ELSE IF CountStatus(service_results, "unhealthy") > 0 THEN "unhealthy"
    ELSE "healthy"

\* analyze_results: the status of one service
service_status(service_results) ==
    IF CountStatus(service_results, "unhealthy") > 0 THEN "unhealthy"
    ELSE IF CountStatus(service_results, "degraded") > 0 THEN "degraded"
    ELSE "healthy"

\* analyze_results: one turn of the loop over results.items(), on the
\* analysis built so far
AnalyzeService(analysis, entry) ==
    LET st == service_status(entry.results)
        summary == [status |-> st,
                    healthy_endpoints |-> CountStatus(entry.results, "healthy"),
                    degraded_endpoints |-> CountStatus(entry.results, "degraded"),
                    unhealthy_endpoints |-> CountStatus(entry.results, "unhealthy")]
    IN  [overall_status |->
            IF st = "unhealthy" THEN "unhealthy"
            ELSE IF st = "degraded" /\ analysis.overall_status # "unhealthy"
            THEN "degraded"
            ELSE analysis.overall_status,
         service_summary |->
            [n \in DOMAIN analysis.service_summary \cup {entry.service} |->
                IF n = entry.service THEN summary ELSE analysis.service_summary[n]]]

RECURSIVE AnalyzeFrom(_)
AnalyzeFrom(a) ==
    IF a.results = <<>> THEN a.analysis
    ELSE AnalyzeFrom([results |-> Tail(a.results),
                      analysis |-> AnalyzeService(a.analysis, Head(a.results))])

\* analyze_results(results); results is the dict in its insertion order
analyze_results(results) ==
    AnalyzeFrom([results |-> results,
                 analysis |-> [overall_status |-> "healthy",
                               service_summary |-> << >>]])

\* check_service_health for one service: its endpoints in their order, and
\* the entry of the service is added to the results dict
CheckServiceHealth(service, outcomes) ==
    /\ hc_analysis = <<>>
    /\ \A i \in 1..Len(hc_results) : hc_results[i].service # service
    /\ hc_results' = Append(hc_results,
           [service |-> service,
            results |-> [i \in 1..Len(services[service].health_endpoints) |->
                            check_endpoint(service,
                                           services[service].health_endpoints[i],
                                           outcomes[i])]])
    /\ UNCHANGED <<hc_analysis, notToolVars>>

\* analysis = tester.analyze_results(results)
AnalyzeResults ==
    /\ hc_analysis = <<>>
    /\ hc_results # <<>>
    /\ hc_analysis' = <<analyze_results(hc_results)>>
    /\ UNCHANGED <<hc_results, notToolVars>>

ToolFresh ==
    /\ hc_results = <<>>
    /\ hc_analysis = <<>>

ToolNext ==
    \/ \E service \in ServiceNames :
       \E outcomes \in [1..Len(services[service].health_endpoints) -> Outcomes] :
           CheckServiceHealth(service, outcomes)
    \/ AnalyzeResults

(***************************************************************************)
(* Application startup and the Model Manager instances (app/main.py,       *)
(* services/model_manager.py).  ModelManager objects are numbered in the   *)
(* order they are constructed; 0 stands for None / not set.                *)
(***************************************************************************)

\* ModelManager.__init__: no model registered
NewManager == [models |-> {}, loaded |-> {}]

\* ModelManager.initialize on a new manager: the five instances are
\* registered and the essential ones loaded, each load succeeding or failing
InitializedManager(loads) ==
    [models |-> ModelNames, loaded |-> {n \in essential_models : loads[n]}]

\* ModelManager.get_model and check_models_ready on one manager object
ManagerGetModel(m, name) ==
    IF name \in m.models /\ name \in m.loaded THEN <<name>> ELSE <<>>
ManagerModelsReady(m) ==
    \A n \in essential_models : n \in m.models /\ n \in m.loaded

\* the endpoints that take the manager from Depends(get_model_manager), and
\* the model each asks it for
HandlerRequests ==
    {[endpoint |-> "analysis", name |-> "decision_pipeline"],
     [endpoint |-> "chat",     name |-> "gpt4_medical"],
     [endpoint |-> "health",   name |-> "decision_pipeline"]}
    \cup {[endpoint |-> e, name |-> n] :
             e \in {"models", "models/load"}, n \in ModelNames \cup {"unknown_model"}}

\* ModelManager.load_model on one manager object, given how the load
\* contract ends: the manager afterwards
ManagerLoadModel(m, name, ok) ==
    IF name \in m.models /\ ok THEN [m EXCEPT !.loaded = @ \cup {name}] ELSE m

\* lifespan, up to the yield: model_manager = ModelManager();
\* await model_manager.initialize(); app.state.model_manager = model_manager
LifespanStartup(loads) ==
    /\ lifespan_pc = "starting"
    /\ managers' = Append(managers, InitializedManager(loads))
    /\ app_state_model_manager' = Len(managers) + 1
    /\ lifespan_pc' = "serving"
    /\ UNCHANGED <<global_model_manager, obtained, notAppVars>>

\* a request handler: get_model_manager() gives the module's singleton,
\* constructing it on the first call; POST /models/{name}/load has that
\* manager load the model, and every handler asks that manager
HandleRequest(req, ok) ==
    /\ lifespan_pc = "serving"
    /\ LET fresh == global_model_manager = 0
           mgrs == IF fresh THEN Append(managers, NewManager) ELSE managers
           got == IF fresh THEN Len(managers) + 1 ELSE global_model_manager
           mgr == IF req.endpoint = "models/load"
                  THEN ManagerLoadModel(mgrs[got], req.name, ok) ELSE mgrs[got]
       IN  /\ managers' = [mgrs EXCEPT ![got] = mgr]
           /\ global_model_manager' = got
           /\ obtained' = <<[endpoint |-> req.endpoint, name |-> req.name,
                             manager |-> got,
                             model |-> ManagerGetModel(mgr, req.name),
                             ready |-> ManagerModelsReady(mgr)]>>
    /\ UNCHANGED <<app_state_model_manager, lifespan_pc, notAppVars>>

\* lifespan after the yield: await model_manager.shutdown() unloads every
\* model of the manager startup built
LifespanShutdown ==
    /\ lifespan_pc = "serving"
    /\ managers' = [managers EXCEPT ![app_state_model_manager].loaded = {}]
    /\ lifespan_pc' = "stopped"
    /\ UNCHANGED <<app_state_model_manager, global_model_manager, obtained, notAppVars>>

AppFresh ==
    /\ managers = <<>>
    /\ app_state_model_manager = 0
    /\ global_model_manager = 0
    /\ lifespan_pc = "starting"
    /\ obtained = <<>>

AppNext ==
    \/ \E loads \in [essential_models -> BOOLEAN] : LifespanStartup(loads)
    \/ \E req \in HandlerRequests, ok \in BOOLEAN : HandleRequest(req, ok)
    \/ LifespanShutdown

(***************************************************************************)
(* Risk assessment of the Audit Decision Pipeline (the risk part of        *)
(* _combine_decisions, _categorize_risk, _determine_required_actions).     *)
(***************************************************************************)

\* the stages _extract_risk_score gives a score for, in the order of
\* self.stages; expert_review gives None
RiskStages == <<"medical_validation", "fraud_detection", "pattern_analysis">>

\* the risk scores a stage reports, in hundredths (0.5 is also what
\* _extract_risk_score takes when the field is missing); <<>> stands for a
\* stage that failed and is skipped
RiskScores == {<<>>, <<0>>, <<25>>, <<50>>, <<100>>}

\* risk_score * stage.weight for the scores above: the product with 0, with
\* a power of two or with 1 is exact
ScoreTimesWeight(score, w) ==
    CASE score = 0   -> FZero
      [] score = 25  -> [m |-> w.m, e |-> w.e - 2]
      [] score = 50  -> [m |-> w.m, e |-> w.e - 1]
      [] score = 100 -> w

\* the list risk_scores after the loop over the stages
risk_scores(reported) ==
    LET Item(i) == IF reported[i] = <<>> THEN <<>>
                   ELSE <<ScoreTimesWeight(reported[i][1], WeightFloat(RiskStages[i]))>>
    IN  Item(1) \o Item(2) \o Item(3)

\* the sum np.mean takes, left to right
RECURSIVE SumFloats(_)
SumFloats(s) ==
    IF s.rest = <<>> THEN s.acc
    ELSE SumFloats([rest |-> Tail(s.rest), acc |-> FAdd(s.acc, Head(s.rest))])

\* overall_risk = np.mean(risk_scores) if risk_scores else 0.5
overall_risk(scores) ==
    IF scores = <<>> THEN Lit(5, 10)
    ELSE FDiv(SumFloats([rest |-> scores, acc |-> FZero]), FromNat(Len(scores)))

\* _categorize_risk
categorize_risk(risk_score) ==
    IF FGe(risk_score, Lit(8, 10)) THEN "critical"
    ELSE IF FGe(risk_score, Lit(6, 10)) THEN "high"
    ELSE IF FGe(risk_score, Lit(4, 10)) THEN "medium"
    ELSE IF FGe(risk_score, Lit(2, 10)) THEN "low"
    ELSE "minimal"

\* _determine_required_actions; the actions are named by what their texts say
determine_required_actions(decision, risk_level, compliance_issues) ==
    (IF decision = "denied" THEN <<"notify_provider_of_denial">>
     ELSE IF decision = "requires_review" THEN <<"manual_review_by_auditor">>
     ELSE <<>>)
    \o (IF risk_level \in {"critical", "high"} THEN <<"fraud_investigation">> ELSE <<>>)
    \o (IF compliance_issues THEN <<"request_compliance_documents">> ELSE <<>>)
    \o (IF decision = "approved" /\ risk_level \in {"medium", "high"}
        THEN <<"monitor_case">> ELSE <<>>)

\* _combine_decisions, its risk assessment and required actions, for the
\* scores the stages reported, the final status and whether the expert
\* review listed compliance issues; one call is looked at
AssessRisk(reported, final_status, compliance_issues) ==
    /\ assessed = <<>>
    /\ LET level == categorize_risk(overall_risk(risk_scores(reported))) IN
       assessed' = <<[reported |-> reported,
                      level |-> level,
                      required_actions |->
                          determine_required_actions(final_status, level,
                                                     compliance_issues)]>>
    /\ UNCHANGED notRiskVars

RiskFresh == assessed = <<>>

RiskNext ==
    \E reported \in [1..Len(RiskStages) -> RiskScores],
       final_status \in {"approved", "denied", "requires_review"},
       compliance_issues \in BOOLEAN :
        AssessRisk(reported, final_status, compliance_issues)

ExtFresh == IdFresh /\ TrainFresh /\ LogFresh /\ CtxFresh /\ HealthFresh /\ ToolFresh /\ AppFresh /\ RiskFresh

(***************************************************************************)
(*                             SPECIFICATIONS                              *)
(***************************************************************************)

InitAuth == AuthInit /\ PipeParked /\ MgrFresh /\ ChatFresh /\ SvcFresh /\ ExtFresh
SpecAuth == InitAuth /\ [][AuthNext]_vars

InitPipeline ==
    AuthInit /\ enable_parallel \in BOOLEAN /\ PipeFresh /\ MgrFresh /\ ChatFresh /\ SvcFresh /\ ExtFresh
SpecPipeline == InitPipeline /\ [][PipeNext]_vars

InitCombine == AuthInit /\ CombineInit /\ MgrFresh /\ ChatFresh /\ SvcFresh /\ ExtFresh
SpecCombine == InitCombine /\ [][CombineNext]_vars

InitManager == AuthInit /\ PipeParked /\ MgrFresh /\ ChatFresh /\ SvcFresh /\ ExtFresh
SpecManager == InitManager /\ [][MgrNext]_vars

InitChat == AuthInit /\ PipeParked /\ MgrFresh /\ ChatFresh /\ SvcFresh /\ ExtFresh
SpecChat == InitChat /\ [][ChatNext]_vars

InitService == AuthInit /\ PipeParked /\ MgrFresh /\ ChatFresh /\ SvcFresh /\ ExtFresh
SpecStore == InitService /\ [][StoreNext]_vars

SpecGpt4 == InitService /\ [][Gpt4Next]_vars

SpecWs == InitService /\ [][WsNext]_vars

SpecRate == InitService /\ [][RateNext]_vars

SpecIds == InitService /\ [][IdNext]_vars

SpecTrain == InitService /\ [][TrainNext]_vars

InitLog == AuthInit /\ PipeParked /\ MgrFresh /\ ChatFresh /\ SvcFresh /\ IdFresh /\ TrainFresh /\ LogRestored /\ CtxFresh /\ HealthFresh /\ ToolFresh /\ AppFresh /\ RiskFresh
SpecLog == InitLog /\ [][LogNext]_vars

SpecCtx == InitService /\ [][CtxNext]_vars

SpecHealth == InitService /\ [][HealthNext]_vars

SpecTool == InitService /\ [][ToolNext]_vars

SpecConcurrent == InitService /\ [][ConcurrentNext]_vars

SpecApp == InitService /\ [][AppNext]_vars

SpecRisk == InitService /\ [][RiskNext]_vars

(***************************************************************************)
(*                                 CLAIMS                                  *)
(***************************************************************************)

\* The allowlist the specification names: root, health paths, docs, openapi schema.
OnAllowlist(path) ==
    \/ path = PathRoot
    \/ StartsWith(path, PathHealth)
    \/ StartsWith(path, PathDocs)
    \/ StartsWith(path, PathOpenapi)

\* C1: a request to a path off the allowlist that carries neither an X-API-Key
\* nor an Authorization header is answered 401 and is not passed downstream.
C1_Unauthenticated401 ==
    (/\ ~OnAllowlist(request.path)
     /\ ~request.api_key.present
     /\ ~request.auth_header.present)
    => (response = 401 /\ ~passed)


\* What the claims say of a call: the stage's model returned, or raised, in it.
ReturnedIn(c, n) == call[c].outcome[n].result # <<>>
RaisedIn(c, n) == call[c].outcome[n].error # <<>>
GavePrediction(c) == call[c].pc = "returned" /\ call[c].ret[1].kind = "prediction"

\* C2: whenever predict() has returned from a call in which exactly one stage
\* model raised and the other three returned, its stage_results mark that stage
\* "failed" with the error's text and the other three "completed".
C2_OneFailureIsolated ==
    \A c \in AllCalls : GavePrediction(c) =>
        \A n \in StageNames :
            (RaisedIn(c, n) /\ \A m \in StageNames \ {n} : ReturnedIn(c, m)) =>
                LET sr == call[c].ret[1].stage_results IN
                /\ sr[n].status = "failed"
                /\ sr[n].error = call[c].outcome[n].error[1]
                /\ \A m \in StageNames \ {n} : sr[m].status = "completed"

\* C3: every execution of a stage leaves the stage with exactly what that
\* execution produced: the result and no error, or the error and no result.
C3_ExactlyOneOfResultError ==
    [][\A c \in AllCalls, n \in StageNames :
          (~Executed(c, n) /\ Executed(c, n)') => stages'[n] = call'[c].outcome[n]]_vars

\* The status the claim gives: by the exact fractions of the voting weight.
ClaimWeight(stgs, d) ==
    LET Voters == {n \in StageNames :
                      Usable(stgs[n]) /\ extract_stage_decision(n, stgs[n]) = d}
        w[S \in SUBSET StageNames] ==
            IF S = {} THEN 0
            ELSE LET n == CHOOSE n \in S : TRUE IN StageWeight(n) + w[S \ {n}]
    IN  w[Voters]
ClaimStatus(stgs) ==
    LET ap == ClaimWeight(stgs, "approved")
        de == ClaimWeight(stgs, "denied")
        total == ap + de + ClaimWeight(stgs, "requires_review")
    IN  IF total > 0 /\ 100 * ap >= 75 * total THEN "approved"
        ELSE IF total > 0 /\ 100 * de >= 75 * total THEN "denied"
        ELSE "requires_review"

\* C4: the final status is "approved" if the approval weight fraction is at
\* least 0.75, else "denied" if the denial weight fraction is at least 0.75,
\* else "requires_review" (also when no stage has a usable result).
C4_StatusByWeightFraction ==
    combined # <<>> => combined[1].status = ClaimStatus(stages)

\* The confidence the claim gives a call: over the stages whose model returned
\* in that call, sum(confidence * weight) / sum(weight); 0 if there is none.
ClaimConfidence(c) ==
    LET Succeeded == {n \in StageNames : ReturnedIn(c, n)}
        num[S \in SUBSET StageNames] ==
            IF S = {} THEN 0
            ELSE LET n == CHOOSE n \in S : TRUE
                 IN  call[c].outcome[n].result[1].confidence * StageWeight(n) + num[S \ {n}]
        den[S \in SUBSET StageNames] ==
            IF S = {} THEN 0
            ELSE LET n == CHOOSE n \in S : TRUE IN StageWeight(n) + den[S \ {n}]
    IN  IF Succeeded = {} THEN [num |-> 0, den |-> 1]
        ELSE [num |-> num[Succeeded], den |-> den[Succeeded]]

\* C5: the confidence predict() returns is the weighted average of the
\* confidences of the stages that succeeded in the call, normalised by those
\* stages' weights, and 0 when none succeeded.
C5_ConfidenceOverSucceeding ==
    \A c \in AllCalls : GavePrediction(c) =>
        LET got == call[c].ret[1].confidence
            want == ClaimConfidence(c)
        IN  got.num * want.den = want.num * got.den

\* C6: in parallel mode a call's combination has run only if all four of its
\* stages have completed or failed, and while the call runs every stage that
\* has not finished can finish, whatever the other stages have done.
C6_CombineAfterAllStages ==
    enable_parallel => \A c \in AllCalls :
        /\ GavePrediction(c) => \A n \in StageNames : Executed(c, n)
        /\ call[c].pc = "running" =>
              \A n \in StageNames : ~Executed(c, n) => ENABLED StageTaskDone(c, n)

\* C6 witness: a parallel call has returned its prediction after one stage
\* raised and another returned.
C6_Witness ==
    \E c \in AllCalls :
        /\ enable_parallel /\ GavePrediction(c)
        /\ \E n, m \in StageNames : RaisedIn(c, n) /\ ReturnedIn(c, m)

\* The task's operation is in progress on the registry: it has taken the lock
\* for it at least once and has not returned.
InProgress(t) ==
    \/ task[t].pc \in {"loading", "r_load", "r_loading"}
    \/ task[t].pc = "r_unload" /\ task[t].i > 1

\* C8: load, unload and reload operations are serialized: at no time are two
\* tasks' operations in progress on the registry.
C8_OperationsSerialized ==
    Cardinality({t \in Tasks : InProgress(t)}) <= 1

\* C9: a returned load_model(name) has returned True or False, never raised:
\* True without invoking the load contract when the model was already loaded,
\* True when the load contract returned, False when the load contract raised.
C9_LoadNeverRaises ==
    \A t \in Tasks : (task[t].op = "load" /\ task[t].pc = "done") =>
        /\ task[t].ret \in {"True", "False"}
        /\ task[t].was_loaded => (task[t].ret = "True" /\ ~task[t].invoked)
        /\ task[t].contract = "ok" => task[t].ret = "True"
        /\ task[t].contract = "raised" => task[t].ret = "False"

\* C9 witness: one load has returned for a model that was already loaded and
\* another after its load contract raised.
C9_Witness ==
    \E t, u \in Tasks :
        /\ task[t].op = "load" /\ task[t].pc = "done" /\ task[t].was_loaded
        /\ task[u].op = "load" /\ task[u].pc = "done" /\ task[u].contract = "raised"

\* A step in which a load of model n succeeds: a load contract returns for it,
\* or initialize() loads it.
LoadSucceeds(n) ==
    \/ \E t \in Tasks : /\ task[t].pc \in {"loading", "r_loading"}
                       /\ task[t].name = n
                       /\ task'[t].contract = "ok"
    \/ models = {} /\ models' # {}

\* A step in which an unload of model n completes.
UnloadCompletes(n) ==
    \E t \in Tasks :
        \/ task[t].pc # "done" /\ task'[t].pc = "done" /\ task'[t].op = "unload"
           /\ task'[t].name = n /\ task'[t].ret = "True"
        \/ task[t].pc = "r_unload" /\ task'[t].pc = "r_load" /\ task[t].name = n

C7_FollowUpChatAnswered ==
    (reply.endpoint \in {"chat_message", "websocket"} /\ reply.eligible) =>
        reply.outcome \in {"answered", "api_error", "unavailable"}

\* C11: POST /analysis/audit with a valid body is answered 503 when
\* get_model("decision_pipeline") gives nothing (the pipeline is not
\* registered or not loaded).
C11_PipelineUnavailable503 ==
    [][\A c \in CaseIds, x \in AuditExecutions("expert_review") :
          (analyze_audit_case(c, TRUE, x) /\ get_model("decision_pipeline") = <<>>)
              => reply'.status = 503]_vars

\* C12: GET /health/readiness is answered 503 whenever the model manager is
\* not ready or the backend probe fails, and with a success status only when
\* both checks pass.
C12_NotReady503 ==
    [][\A probe \in Probes : readiness_check(probe) =>
          IF check_models_ready /\ probe = "200"
              THEN reply'.status \in 200..299
              ELSE reply'.status = 503]_vars

\* C13: when a load_model call made for POST /models/{name}/load returns, the
\* endpoint answers 200 if the model is loaded and 500 if loading it failed;
\* it never answers 200 for a model that is not loaded at that moment.
C13_LoadEndpointTruthful ==
    [][\A t \in Tasks :
          (task'[t] # task[t] /\ task'[t].op = "load" /\ task'[t].pc = "done") =>
              LET status == load_model_endpoint(task'[t].ret)
                  loaded == task'[t].name \in models' /\ is_loaded'[task'[t].name]
              IN  /\ loaded => status = 200
                  /\ task'[t].contract = "raised" => status = 500
                  /\ status = 200 => loaded]_vars

\* The entries get_chat_history gives are the newest stored messages, newest
\* first: entry i is the i-th most recent message.
NewestFirst(h, last) == \A i \in 1..Len(h) : h[i] = last - i + 1

\* C14: the chat history of a case holds at most 100 entries, the most
\* recently stored ones, newest first: whenever no store_chat_message call is
\* under way, and also at the return of a call that interleaved with another;
\* after 105 messages exactly the most recent 100 are retrievable.
C14_HistoryCappedNewestFirst ==
    /\ []((\A t \in Tasks : store_pc[t] = "idle") =>
            LET h == get_chat_history(MaxStored) IN
                /\ Len(h) = Min(pushed, history_cap)
                /\ NewestFirst(h, pushed))
    /\ [][\A t \in Tasks : StoreTrim(t) =>
            LET h == get_chat_history(MaxStored)' IN
                /\ Len(h) <= history_cap
                /\ NewestFirst(h, pushed')]_vars

\* C14 witness: 105 messages were stored and get_chat_history gives the 100
\* most recent, message 105 down to message 6.
C14_Witness ==
    /\ pushed = 105
    /\ \A t \in Tasks : store_pc[t] = "idle"
    /\ Len(get_chat_history(105)) = 100
    /\ get_chat_history(105)[1] = 105
    /\ get_chat_history(105)[100] = 6
    /\ redis_client = "client"

\* C15: once 30 days have passed since a store_chat_message call last returned
\* for the case, and none is under way, get_chat_history gives nothing for it.
C15_HistoryAbsentAfterTtl ==
    (/\ redis_client # "unset"
     /\ \A t \in Tasks : store_pc[t] = "idle"
     /\ idle_days >= history_ttl) => get_chat_history(MaxStored) = <<>>

\* C16: after any sequence of predict and chat calls, the context history of
\* each case holds at most 10 messages, and they are the last ones appended.
C16_ContextAtMostTen ==
    \A c \in CaseIds :
        /\ Len(case_messages[c]) <= context_cap
        /\ \A i \in 1..(Len(case_messages[c]) - 1) :
               case_messages[c][i][2] <= case_messages[c][i + 1][2]

\* C17: when DELETE /chat/context/{case_id} has answered success, no
\* GPT4MedicalModel instance holds conversation history for the case and the
\* Context Manager holds neither its context nor its chat history, whether or
\* not the reasoning model is loaded.
C17_ClearRemovesEverything ==
    [][\A c \in CaseIds : clear_chat_context(c) =>
          /\ \A g \in Gpt4Instances : c \notin context_history'[g]
          /\ ContextKey(c) \notin stored'
          /\ HistoryKey(c) \notin stored']_vars

\* The positions in sent of the "response" and "error" frames for frame n.
AnswersTo(n) ==
    {i \in 1..Len(sent) : sent[i] \in {<<"response", n>>, <<"error", n>>}}

\* C18: on one connection the frames are handled in arrival order, and every
\* "message" frame read gets a "typing" frame followed directly by exactly one
\* "response" or "error" frame for it; until that frame is sent no further
\* incoming frame is read.
C18_FramesInOrderOneAnswer ==
    /\ \A i, j \in 1..Len(sent) : i < j => sent[i][2] = 0 \/ sent[j][2] = 0
                                          \/ sent[i][2] <= sent[j][2]
    /\ \A n \in 1..read : arrivals[n] = "message" =>
          \E i \in 1..Len(sent) :
              /\ sent[i] = <<"typing", n>>
              /\ IF i = Len(sent)
                    THEN ws_pc = "process" /\ read = n /\ AnswersTo(n) = {}
                    ELSE AnswersTo(n) = {i + 1}
    /\ \A n \in 1..Len(arrivals) :
          (n > read \/ arrivals[n] # "message") => AnswersTo(n) = {}

\* C18 witness: a "message" frame was answered with "response", a later one
\* with "error", and another frame has arrived and is not read yet.
C18_Witness ==
    /\ \E n, m \in 1..read :
          /\ n < m
          /\ AnswersTo(n) # {} /\ sent[CHOOSE i \in AnswersTo(n) : TRUE][1] = "response"
          /\ AnswersTo(m) # {} /\ sent[CHOOSE i \in AnswersTo(m) : TRUE][1] = "error"
    /\ read < Len(arrivals)

\* C19: a text that is not JSON is answered with one "error" frame and the
\* connection is closed; a client disconnect ends the handler without a
\* frame; after either, nothing more is sent or read.
C19_ErrorFrameThenClose ==
    /\ [][(ws_pc = "receive" /\ read' = read + 1) =>
            /\ arrivals[read + 1] = "invalid" =>
                  sent' = Append(sent, <<"error", 0>>) /\ ws_pc' = "closed"
            /\ arrivals[read + 1] = "disconnect" =>
                  sent' = sent /\ ws_pc' = "disconnected"]_vars
    /\ [][(ws_pc = "closed" \/ ws_pc = "disconnected") =>
            (sent' = sent /\ read' = read /\ ws_pc' = ws_pc)]_vars

\* C19 witness: the connection was closed after the "error" frame for a text
\* that is not JSON, while a later frame of the client is left unread.
C19_Witness ==
    /\ ws_pc = "closed"
    /\ arrivals[read] = "invalid"
    /\ sent[Len(sent)] = <<"error", 0>>
    /\ read < Len(arrivals)

\* C20: of each client's requests at most requests_per_minute are passed to
\* the downstream handler within any span of 60 seconds, here two consecutive
\* half minutes; a request that is not passed is answered 429 with
\* Retry-After: 60.
C20_SlidingWindowCeiling ==
    /\ \A c \in Clients : forwarded[c].prev + forwarded[c].cur <= requests_per_minute
    /\ (rl_reply.status # 0 /\ ~rl_reply.passed) =>
          (rl_reply.status = 429 /\ rl_reply.retry_after = "60")

\* C21: objects built without explicit identifiers are told apart: two
\* ModelInput objects have different request ids, two ModelPrediction objects
\* have different prediction ids and each carries the time it was built at,
\* and no two analyses answer with the same analysis id.
C21_FreshIdentifiers ==
    /\ \A i, j \in 1..Len(inputs) :
          (i # j /\ ~inputs[i].given /\ ~inputs[j].given)
              => inputs[i].request_id # inputs[j].request_id
    /\ \A i, j \in 1..Len(predictions) :
          (i # j /\ ~predictions[i].given /\ ~predictions[j].given)
              => AnalysisResponse(predictions[i]).analysis_id
                     # AnalysisResponse(predictions[j]).analysis_id
    /\ \A i \in 1..Len(predictions) :
          ~predictions[i].given => predictions[i].timestamp = predictions[i].built_at

\* what run number i of the training pipeline left behind
WroteFiles(i) == \E f \in model_store : f.version = i
Registered(i) == \E k \in 1..Len(model_registry) : model_registry[k] = i
Notified(i) == \E k \in 1..Len(deployment_queue) : deployment_queue[k].model_version = i

\* C22: a training run whose validation metric is below the minimum of its
\* model type (authorization accuracy 0.84 against 0.85) returns "failed" and
\* leaves no artifact, no registry update and no deployment notification.
C22_DeployOnlyIfValidationClears ==
    \A i \in 1..Len(training_results) :
        LET r == training_results[i] IN
        (r.validated # <<>> /\ r.validated[1] < model_configs[r.model_type].minimum)
            => /\ r.status = "failed"
               /\ ~WroteFiles(i)
               /\ ~Registered(i)
               /\ ~Notified(i)

C22_Witness ==
    \E i \in 1..Len(training_results) :
        /\ training_results[i] = TrainingResult("authorization", "failed", <<84>>)
        /\ \E j \in 1..Len(training_results) :
              training_results[j].status = "success" /\ WroteFiles(j) /\ Notified(j)

\* C30: a train_model call that returned a status other than "success"
\* (skipped, failed or error) wrote no artifact and no metadata file and
\* enqueued no deployment notification.
C30_NoSuccessNoArtifact ==
    \A i \in 1..Len(training_results) :
        training_results[i].status # "success" => ~WroteFiles(i) /\ ~Notified(i)

\* C23: after any number of prediction log writes the log queue holds at most
\* 10,000 entries, and they are the most recent ones, newest first.
C23_LogAtMostTenThousand ==
    /\ Len(ml_predictions) <= 10000
    /\ \A i \in 1..Len(ml_predictions) : ml_predictions[i] = logged + 1 - i

\* C24: once no logging scope is open any more, whatever the order the scopes
\* were opened and closed in, records carry none of the scopes' attributes:
\* the record factory is the one in force before the first scope.
C24_ScopesLeaveNoTrace ==
    (\A s \in Scopes : scope_pc[s] # "entered")
        => /\ record_factory = <<>>
           /\ RecordAttributes(record_factory) = {}

\* C25: the overall status /health/detailed answers with is the worst of the
\* sub-check statuses in the answer: unhealthy if one is unhealthy, degraded
\* if none is unhealthy and one is degraded, healthy otherwise.
C25_OverallIsWorstSubCheck ==
    health_reply # <<>> =>
        LET checks == health_reply[1].checks IN
        health_reply[1].status =
            IF \E name \in CheckNames : checks[name] = "unhealthy" THEN "unhealthy"
            ELSE IF \E name \in CheckNames : checks[name] = "degraded" THEN "degraded"
            ELSE "healthy"

\* the worst of a set of statuses
Worst(statuses) ==
    IF "unhealthy" \in statuses THEN "unhealthy"
    ELSE IF "degraded" \in statuses THEN "degraded"
    ELSE "healthy"

EndpointStatuses(entry) == {entry.results[i].status : i \in 1..Len(entry.results)}

\* C26: in the analysis of the health check tool the status of each service is
\* the worst status among its endpoints and the overall status is the worst
\* across the services, whatever the order of endpoints and services; an
\* endpoint at 6000 ms and one at 2500 ms make the service and the overall
\* result unhealthy.
C26_WorstOfRollup ==
    hc_analysis # <<>> =>
        /\ \A i \in 1..Len(hc_results) :
              hc_analysis[1].service_summary[hc_results[i].service].status
                  = Worst(EndpointStatuses(hc_results[i]))
        /\ hc_analysis[1].overall_status
              = Worst(UNION {EndpointStatuses(hc_results[i]) : i \in 1..Len(hc_results)})

C26_Witness ==
    /\ hc_analysis # <<>>
    /\ Len(hc_results) = 3
    /\ hc_results[1].service = "frontend_service"
    /\ \E i \in 1..3 :
          /\ Len(hc_results[i].results) = 2
          /\ hc_results[i].results[1].response_time_ms = 2500
          /\ hc_results[i].results[1].status = "degraded"
          /\ hc_results[i].results[2].response_time_ms = 6000
          /\ hc_results[i].results[2].status = "unhealthy"
          /\ hc_analysis[1].service_summary[hc_results[i].service].status = "unhealthy"
    /\ hc_analysis[1].overall_status = "unhealthy"

\* the stages as the executions of call c alone leave them on new stages
OwnStages(c) == [n \in StageNames |-> execute_stage(NewStage, call[c].outcome[n])]

\* C27: when two predict() calls run concurrently on the one pipeline, the
\* final decision, the confidence and the stage_results each call returns are
\* computed from the outcomes of that call's own stage executions only.
C27_ConcurrentCallsIsolated ==
    \A c \in AllCalls : GavePrediction(c) =>
        call[c].ret[1] = PipelinePrediction(OwnStages(c))

\* C28: once startup has completed, the Model Manager a request handler
\* obtains is the one startup initialized: what get_model and
\* check_models_ready tell the handler is what that manager holds.
C28_HandlersGetStartupManager ==
    (lifespan_pc = "serving" /\ obtained # <<>>) =>
        LET started == managers[app_state_model_manager] IN
        /\ obtained[1].manager = app_state_model_manager
        /\ obtained[1].model = ManagerGetModel(started, obtained[1].name)
        /\ obtained[1].ready = ManagerModelsReady(started)

\* C29: with the default weights, when every stage that reports a risk score
\* succeeded and reported the maximum 1.0, the overall risk level is "high" or
\* "critical" and the required actions include the fraud investigation.
C29_MaximumRiskIsHigh ==
    (assessed # <<>> /\ \A i \in 1..Len(RiskStages) : assessed[1].reported[i] = <<100>>)
        => /\ assessed[1].level \in {"high", "critical"}
           /\ \E k \in 1..Len(assessed[1].required_actions) :
                 assessed[1].required_actions[k] = "fraud_investigation"

=============================================================================
